---- MODULE Spec2Model ----
(***************************************************************************)
(* CyberShield smart-city dashboard: the incident-response planner          *)
(* (frontend/src/utils/incidentResponse.js), the threat classifier that     *)
(* the same file carries from line 751 on, and the React providers that     *)
(* call them (ResponseContext.js, ThreatContext.js), and the backend's      *)
(* incident ledger (backend/src/utils/blockchainLogger.js).                 *)
(*                                                                         *)
(* Conventions.                                                            *)
(*  - Wall-clock timestamps (new Date().toISOString()) are minutes on an    *)
(*    integer clock `now`; Null (-1) is JavaScript null and Undefined (-2)  *)
(*    is a field that was never assigned.                                   *)
(*  - A JavaScript number that can be NaN is a record [nan, val].           *)
(*  - Math.random() is a nondeterministic draw from a bounded grid.         *)
(*  - A call that raises a TypeError leaves the state untouched and is      *)
(*    recorded in `call`.                                                   *)
(***************************************************************************)
EXTENDS Integers, Naturals, Sequences, FiniteSets, TLC

VARIABLES
  plan,      \* the caller's current response-plan object, or NoPlan
  argument,  \* the plan object handed to the last planner call, as that call
             \* left it (NoPlan if the call took no plan)
  report,    \* the report the last call returned, NoReport if it returned none
  now,       \* the wall clock
  call,      \* the last planner/classifier call: its name, argument, outcome
  alert,     \* the value last returned by a stateless helper (the classifier
             \* entry points, generateResponseSteps)
  ledger,    \* blockchainLedger, the backend's array of blocks
  logged,    \* the data of each block as it was when the block was logged
  verdict,   \* what verifyLedger returned on the ledger as it is, or NoVerdict
  simulationActive,      \* SimulationProvider state, as of the latest render
  simulationSpeed,       \* SimulationProvider state
  currentScenario,       \* SimulationProvider state: a scenario id, or Null
  simulationTime,        \* SimulationProvider state: the second of the day
  simulationStats,       \* SimulationProvider state
  simulationIntervalRef, \* the interval timer and what its callback holds
  eventQueueRef          \* the queue of scenario events, sorted by delay

ledgerVars == <<ledger, logged, verdict>>

simVars == <<simulationActive, simulationSpeed, currentScenario, simulationTime,
             simulationStats, simulationIntervalRef, eventQueueRef>>

vars == <<plan, argument, report, now, call, alert, ledger, logged, verdict,
          simulationActive, simulationSpeed, currentScenario, simulationTime,
          simulationStats, simulationIntervalRef, eventQueueRef>>

----------------------------------------------------------------------------
(* Bounds of the model *)

MaxTime == 2        \* the clock runs over 1..MaxTime
MaxNotes == 3       \* a plan's notes log holds at most MaxNotes entries
MaxBlocks == 3      \* the ledger holds at most MaxBlocks blocks, genesis included
MaxActions == 2     \* a recommended-action list handed to generateResponseSteps
                    \* holds at most MaxActions strings
MaxSeconds == 3     \* the seconds of a day run over 0..MaxSeconds

----------------------------------------------------------------------------
(* JavaScript values *)

Null == -1
Undefined == -2

Num(n) == [nan |-> FALSE, val |-> n]
NaN == [nan |-> TRUE, val |-> 0]

\* `!x` for a timestamp field: null and undefined are falsy, ISO strings truthy
Falsy(t) == t = Null \/ t = Undefined

JsArray(items) == [type |-> "array", val |-> items]
JsString(s) == [type |-> "string", val |-> s]
JsObject(o) == [type |-> "object", val |-> o]
JsUndefined == [type |-> "undefined", val |-> <<>>]

\* 0-based Array.prototype.indexOf, -1 when absent
IndexOf(seq, x) ==
  IF \E i \in 1..Len(seq) : seq[i] = x
  THEN (CHOOSE i \in 1..Len(seq) : seq[i] = x /\ \A j \in 1..(i-1) : seq[j] # x) - 1
  ELSE -1

Includes(seq, x) == \E i \in 1..Len(seq) : seq[i] = x

----------------------------------------------------------------------------
(* Enumerations *)

RESPONSE_TEAMS ==
  [TIER1 |-> "Tier 1 - Initial Response",
   TIER2 |-> "Tier 2 - Technical Response",
   TIER3 |-> "Tier 3 - Advanced Response",
   FORENSICS |-> "Digital Forensics Team",
   PHYSICAL |-> "Physical Security Team",
   MANAGEMENT |-> "Crisis Management Team"]

RESPONSE_PHASES ==
  [IDENTIFICATION |-> "identification",
   CONTAINMENT |-> "containment",
   ERADICATION |-> "eradication",
   RECOVERY |-> "recovery",
   LESSONS_LEARNED |-> "lessons_learned"]

\* Object.keys(RESPONSE_PHASES), in insertion order
PhaseKeys == <<"IDENTIFICATION", "CONTAINMENT", "ERADICATION", "RECOVERY", "LESSONS_LEARNED">>

PhaseNames == {RESPONSE_PHASES[k] : k \in DOMAIN RESPONSE_PHASES}

RESPONSE_STATUS ==
  [PENDING |-> "pending",
   IN_PROGRESS |-> "in_progress",
   COMPLETED |-> "completed",
   FAILED |-> "failed"]

SEVERITY ==
  [LOW |-> "low", MEDIUM |-> "medium", HIGH |-> "high", CRITICAL |-> "critical"]

Severities == {SEVERITY[k] : k \in DOMAIN SEVERITY}

THREAT_TYPES ==
  [UNAUTHORIZED_ACCESS |-> "Unauthorized Access",
   DATA_MANIPULATION |-> "Data Manipulation",
   DENIAL_OF_SERVICE |-> "Denial of Service",
   MALWARE |-> "Malware Infection",
   RANSOMWARE |-> "Ransomware",
   FIRMWARE_TAMPERING |-> "Firmware Tampering",
   COMMUNICATION_HIJACKING |-> "Communication Hijacking",
   CREDENTIAL_THEFT |-> "Credential Theft",
   PHYSICAL_TAMPERING |-> "Physical Tampering",
   SOCIAL_ENGINEERING |-> "Social Engineering"]

ThreatTypes == {THREAT_TYPES[k] : k \in DOMAIN THREAT_TYPES}

THREAT_STATUS ==
  [NEW |-> "new", DETECTED |-> "detected"]

\* String.prototype.toUpperCase on the phase names a step can carry
ToUpperCase(s) ==
  CASE s = "identification" -> "IDENTIFICATION"
    [] s = "containment" -> "CONTAINMENT"
    [] s = "eradication" -> "ERADICATION"
    [] s = "recovery" -> "RECOVERY"
    [] s = "lessons_learned" -> "LESSONS_LEARNED"
    [] OTHER -> s

----------------------------------------------------------------------------
(* createResponseTimeline *)

\* severityMultiplier, in tenths
severityMultiplier ==
  [low |-> 7, medium |-> 10, high |-> 15, critical |-> 20]

\* The IEEE-754 product of a duration (hundredths of a minute) and a
\* severity multiplier (tenths), in thousandths of a minute.  Every product
\* the code can form is exact to this resolution except 45 * 0.7, which the
\* double arithmetic yields as 31.499999999999996 instead of 31.5.
FloatMul(centi, tenths) ==
  IF centi = 4500 /\ tenths = 7 THEN centi * tenths - 1 ELSE centi * tenths

\* Math.round of a value in thousandths: nearest integer, ties upward
MathRoundMilli(milli) == (milli + 500) \div 1000

\* The phase base durations (15, 30, 45, 30, 60 minutes) after the
\* threat-type adjustment, in hundredths: eradication and recovery * 1.5 for
\* ransomware and malware, eradication * 1.3 and recovery * 1.2 for firmware
\* tampering, identification * 1.2 and eradication * 1.1 for data manipulation
\* (45 * 1.1 is 49.50000000000001 in doubles, which rounds as 49.5 does under
\* every severity multiplier)
TypeAdjusted(threatType) ==
  IF threatType = THREAT_TYPES.RANSOMWARE \/ threatType = THREAT_TYPES.MALWARE
  THEN [identification |-> 1500, containment |-> 3000, eradication |-> 6750,
        recovery |-> 4500, lessons_learned |-> 6000]
  ELSE IF threatType = THREAT_TYPES.FIRMWARE_TAMPERING
  THEN [identification |-> 1500, containment |-> 3000, eradication |-> 5850,
        recovery |-> 3600, lessons_learned |-> 6000]
  ELSE IF threatType = THREAT_TYPES.DATA_MANIPULATION
  THEN [identification |-> 1800, containment |-> 3000, eradication |-> 4950,
        recovery |-> 3000, lessons_learned |-> 6000]
  ELSE [identification |-> 1500, containment |-> 3000, eradication |-> 4500,
        recovery |-> 3000, lessons_learned |-> 6000]

\* createResponseTimeline(threatType, severity).  A severity outside the
\* multiplier table (createResponsePlan passes none) makes the multiplier
\* undefined and every duration NaN.
createResponseTimeline(threatType, severity) ==
  [p \in PhaseNames |->
     [estimatedDuration |->
        IF severity \in DOMAIN severityMultiplier
        THEN Num(MathRoundMilli(FloatMul(TypeAdjusted(threatType)[p],
                                          severityMultiplier[severity])))
        ELSE NaN,
      startTime |-> Null,
      endTime |-> Null,
      status |-> RESPONSE_STATUS.PENDING]]

\* Number addition with NaN propagation
NumAdd(a, b) == IF a.nan \/ b.nan THEN NaN ELSE Num(a.val + b.val)

\* Object.values(timeline).reduce(...) in the timeline's key order
calculateEstimatedCompletionTime(timeline) ==
  NumAdd(NumAdd(NumAdd(NumAdd(NumAdd(Num(0),
    timeline["identification"].estimatedDuration),
    timeline["containment"].estimatedDuration),
    timeline["eradication"].estimatedDuration),
    timeline["recovery"].estimatedDuration),
    timeline["lessons_learned"].estimatedDuration)

----------------------------------------------------------------------------
(* generateRecommendedActions (classifier) and generateResponseSteps *)

DeviceTypes == {"camera", "trafficLight", "waterSensor", "powerGrid"}

generateRecommendedActions(threatType, severity, deviceType) ==
  <<"Isolate affected device from network",
    "Capture current device state for forensic analysis">>
  \o (IF threatType = THREAT_TYPES.UNAUTHORIZED_ACCESS
      THEN <<"Reset all access credentials",
             "Review access logs for suspicious patterns">>
           \o (IF severity = SEVERITY.CRITICAL \/ severity = SEVERITY.HIGH
               THEN <<"Implement additional authentication measures">>
               ELSE <<>>)
      ELSE IF threatType = THREAT_TYPES.DATA_MANIPULATION
      THEN <<"Restore data from last known good backup",
             "Verify data integrity across connected systems">>
           \o (IF severity = SEVERITY.CRITICAL
               THEN <<"Manually verify sensor readings with physical inspection">>
               ELSE <<>>)
      ELSE IF threatType = THREAT_TYPES.FIRMWARE_TAMPERING
      THEN <<"Reflash device with verified firmware",
             "Implement firmware signature verification">>
      ELSE IF threatType = THREAT_TYPES.MALWARE \/ threatType = THREAT_TYPES.RANSOMWARE
      THEN <<"Deploy anti-malware countermeasures",
             "Scan connected systems for infection spread">>
           \o (IF severity = SEVERITY.CRITICAL \/ severity = SEVERITY.HIGH
               THEN <<"Activate incident response team">>
               ELSE <<>>)
      ELSE <<>>)
  \o (IF severity = SEVERITY.CRITICAL
      THEN <<"Notify city emergency response coordinator",
             "Prepare public communication if services are affected">>
      ELSE <<>>)
  \o (IF deviceType = "trafficLight"
         /\ (severity = SEVERITY.CRITICAL \/ severity = SEVERITY.HIGH)
      THEN <<"Switch to manual traffic control if necessary">>
      ELSE IF deviceType = "camera" /\ threatType = THREAT_TYPES.UNAUTHORIZED_ACCESS
      THEN <<"Review recorded footage for evidence of tampering">>
      ELSE <<>>)

phaseMap ==
  ("Isolate affected device from network" :> RESPONSE_PHASES.CONTAINMENT)
  @@ ("Capture current device state for forensic analysis" :> RESPONSE_PHASES.IDENTIFICATION)
  @@ ("Reset all access credentials" :> RESPONSE_PHASES.ERADICATION)
  @@ ("Review access logs for suspicious patterns" :> RESPONSE_PHASES.IDENTIFICATION)
  @@ ("Implement additional authentication measures" :> RESPONSE_PHASES.RECOVERY)
  @@ ("Restore data from last known good backup" :> RESPONSE_PHASES.RECOVERY)
  @@ ("Verify data integrity across connected systems" :> RESPONSE_PHASES.RECOVERY)
  @@ ("Manually verify sensor readings with physical inspection" :> RESPONSE_PHASES.IDENTIFICATION)
  @@ ("Reflash device with verified firmware" :> RESPONSE_PHASES.ERADICATION)
  @@ ("Implement firmware signature verification" :> RESPONSE_PHASES.RECOVERY)
  @@ ("Deploy anti-malware countermeasures" :> RESPONSE_PHASES.ERADICATION)
  @@ ("Scan connected systems for infection spread" :> RESPONSE_PHASES.CONTAINMENT)
  @@ ("Activate incident response team" :> RESPONSE_PHASES.IDENTIFICATION)
  @@ ("Notify city emergency response coordinator" :> RESPONSE_PHASES.IDENTIFICATION)
  @@ ("Prepare public communication if services are affected" :> RESPONSE_PHASES.CONTAINMENT)
  @@ ("Switch to manual traffic control if necessary" :> RESPONSE_PHASES.CONTAINMENT)
  @@ ("Review recorded footage for evidence of tampering" :> RESPONSE_PHASES.IDENTIFICATION)

teamMap ==
  ("Isolate affected device from network" :> RESPONSE_TEAMS.TIER1)
  @@ ("Capture current device state for forensic analysis" :> RESPONSE_TEAMS.FORENSICS)
  @@ ("Reset all access credentials" :> RESPONSE_TEAMS.TIER2)
  @@ ("Review access logs for suspicious patterns" :> RESPONSE_TEAMS.TIER2)
  @@ ("Implement additional authentication measures" :> RESPONSE_TEAMS.TIER3)
  @@ ("Restore data from last known good backup" :> RESPONSE_TEAMS.TIER2)
  @@ ("Verify data integrity across connected systems" :> RESPONSE_TEAMS.TIER2)
  @@ ("Manually verify sensor readings with physical inspection" :> RESPONSE_TEAMS.PHYSICAL)
  @@ ("Reflash device with verified firmware" :> RESPONSE_TEAMS.TIER3)
  @@ ("Implement firmware signature verification" :> RESPONSE_TEAMS.TIER3)
  @@ ("Deploy anti-malware countermeasures" :> RESPONSE_TEAMS.TIER2)
  @@ ("Scan connected systems for infection spread" :> RESPONSE_TEAMS.TIER2)
  @@ ("Activate incident response team" :> RESPONSE_TEAMS.MANAGEMENT)
  @@ ("Notify city emergency response coordinator" :> RESPONSE_TEAMS.MANAGEMENT)
  @@ ("Prepare public communication if services are affected" :> RESPONSE_TEAMS.MANAGEMENT)
  @@ ("Switch to manual traffic control if necessary" :> RESPONSE_TEAMS.PHYSICAL)
  @@ ("Review recorded footage for evidence of tampering" :> RESPONSE_TEAMS.FORENSICS)

\* Math.round(n / 3) for a number n (NaN stays NaN)
RoundThird(n) == IF n.nan THEN NaN ELSE Num((2 * n.val + 3) \div 6)

\* generateResponseSteps with identification as the default phase of an action
\* that phaseMap does not list
generateResponseSteps_DefaultsToIdentification(recommendedActions, timeline) ==
  IF recommendedActions.type # "array" \/ timeline.type # "object"
  THEN [threw |-> TRUE, steps |-> <<>>]
  ELSE
    LET actions == recommendedActions.val
        tl == timeline.val
        stepOf(index) ==
          LET action == actions[index]
              phase == IF action \in DOMAIN phaseMap
                       THEN phaseMap[action] ELSE RESPONSE_PHASES.IDENTIFICATION
              team == IF action \in DOMAIN teamMap
                      THEN teamMap[action] ELSE RESPONSE_TEAMS.TIER1
          IN [id |-> index,
              description |-> action,
              phase |-> phase,
              assignedTeam |-> team,
              status |-> RESPONSE_STATUS.PENDING,
              estimatedDuration |-> RoundThird(tl[phase].estimatedDuration),
              startTime |-> Null,
              endTime |-> Null]
    IN [threw |-> FALSE,
        steps |->
          [i \in 1..Len(actions) |-> stepOf(i)]
          \o <<[id |-> Len(actions) + 1,
                description |-> "Document incident and update response procedures",
                phase |-> RESPONSE_PHASES.LESSONS_LEARNED,
                assignedTeam |-> RESPONSE_TEAMS.MANAGEMENT,
                status |-> RESPONSE_STATUS.PENDING,
                estimatedDuration |-> tl[RESPONSE_PHASES.LESSONS_LEARNED].estimatedDuration,
                startTime |-> Null,
                endTime |-> Null]>>]

\* generateResponseSteps(recommendedActions, timeline).  The arguments are
\* JavaScript values: recommendedActions.forEach exists only on an array, and
\* timeline[phase].estimatedDuration needs an object keyed by the phases; any
\* other argument raises a TypeError.
generateResponseSteps(recommendedActions, timeline) ==
  IF recommendedActions.type # "array" \/ timeline.type # "object"
  THEN [threw |-> TRUE, steps |-> <<>>]
  ELSE
    LET actions == recommendedActions.val
        tl == timeline.val
        stepOf(index) ==
          LET action == actions[index]
              phase == IF action \in DOMAIN phaseMap
                       THEN phaseMap[action] ELSE RESPONSE_PHASES.CONTAINMENT
              team == IF action \in DOMAIN teamMap
                      THEN teamMap[action] ELSE RESPONSE_TEAMS.TIER1
          IN [id |-> index,
              description |-> action,
              phase |-> phase,
              assignedTeam |-> team,
              status |-> RESPONSE_STATUS.PENDING,
              estimatedDuration |-> RoundThird(tl[phase].estimatedDuration),
              startTime |-> Null,
              endTime |-> Null]
    IN [threw |-> FALSE,
        steps |->
          [i \in 1..Len(actions) |-> stepOf(i)]
          \o <<[id |-> Len(actions) + 1,
                description |-> "Document incident and update response procedures",
                phase |-> RESPONSE_PHASES.LESSONS_LEARNED,
                assignedTeam |-> RESPONSE_TEAMS.MANAGEMENT,
                status |-> RESPONSE_STATUS.PENDING,
                estimatedDuration |-> tl[RESPONSE_PHASES.LESSONS_LEARNED].estimatedDuration,
                startTime |-> Null,
                endTime |-> Null]>>]

----------------------------------------------------------------------------
(* Response plans *)

NoPlan == [exists |-> FALSE]
NoReport == [status |-> "none"]
NoAlert == [kind |-> "none"]

Note(timestamp, author, text, pct, phase) ==
  [timestamp |-> timestamp, author |-> author,
   content |-> [text |-> text, pct |-> pct, phase |-> phase]]

\* The object literal that initiateResponse returns, given the timeline and
\* the steps its two helper calls produced
ResponsePlanObject(incidentId, incidentType, severity, timeline, steps, startTime) ==
  [exists |-> TRUE,
   incidentId |-> incidentId,
   incidentType |-> incidentType,
   severity |-> severity,
   status |-> RESPONSE_STATUS.IN_PROGRESS,
   phase |-> RESPONSE_PHASES.IDENTIFICATION,
   currentPhase |-> "undefined",
   timeline |-> timeline,
   responseSteps |-> steps,
   startTime |-> startTime,
   estimatedCompletionTime |-> calculateEstimatedCompletionTime(timeline),
   actualCompletionTime |-> Undefined,
   endTime |-> Null,
   notes |-> <<>>]

\* initiateResponse(incidentData): the steps are requested as
\* generateResponseSteps(incidentType, severity, affectedSystems), that is
\* with a string where the action list is expected and a string where the
\* timeline is expected.
initiateResponse(incidentId, incidentType, severity, startTime) ==
  LET timeline == createResponseTimeline(incidentType, severity)
      responseSteps == generateResponseSteps(JsString(incidentType), JsString(severity))
  IN IF responseSteps.threw
     THEN [threw |-> TRUE, value |-> NoPlan]
     ELSE [threw |-> FALSE,
           value |-> ResponsePlanObject(incidentId, incidentType, severity,
                                        timeline, responseSteps.steps, startTime)]

\* createResponsePlan(threatAlert): the timeline is requested without
\* arguments and the steps as generateResponseSteps(threatAlert), that is with
\* the alert object as the action list and no timeline.  The returned literal
\* names the steps `steps` and carries an ISO date as estimatedCompletionTime.
createResponsePlan(threatAlert, t) ==
  LET timeline == createResponseTimeline("undefined", "undefined")
      steps == generateResponseSteps(JsObject(threatAlert), JsUndefined)
  IN IF steps.threw
     THEN [threw |-> TRUE, value |-> NoPlan]
     ELSE [threw |-> FALSE,
           value |-> [exists |-> TRUE,
                      incidentId |-> threatAlert.id,
                      incidentType |-> threatAlert.type,
                      severity |-> threatAlert.severity,
                      status |-> RESPONSE_STATUS.IN_PROGRESS,
                      phase |-> RESPONSE_PHASES.IDENTIFICATION,
                      timeline |-> timeline,
                      steps |-> steps.steps,
                      startTime |-> t,
                      estimatedCompletionTime |-> [isoDate |-> t + 60]]]

\* A plan as a caller hands it to startResponse, simulateResponseProgress and
\* generateResponseReport: the fields those functions read, with the timeline
\* of createResponseTimeline(threatType, severity) and the steps of
\* generateResponseSteps(recommendedActions, timeline) called as declared.
\* A plan not yet started is pending with no start time (the case
\* simulateResponseProgress and calculateCompletionPercentage test for).
PlanInput(incidentId, threatType, severity, deviceType, status, t) ==
  LET timeline == createResponseTimeline(threatType, severity)
      steps == generateResponseSteps(
                 JsArray(generateRecommendedActions(threatType, severity, deviceType)),
                 JsObject(timeline)).steps
      base == ResponsePlanObject(incidentId, threatType, severity, timeline, steps,
                                 IF status = RESPONSE_STATUS.PENDING THEN Null ELSE t)
  IN [base EXCEPT !.status = status]

PhaseAt(i) == RESPONSE_PHASES[PhaseKeys[i + 1]]

\* startResponse with the `step.phase === IDENTIFICATION` test dropped: every
\* step is started
startResponse_StartsEveryStep(responsePlan, t) ==
  [responsePlan EXCEPT
     !.status = RESPONSE_STATUS.IN_PROGRESS,
     !.startTime = t,
     !.timeline[RESPONSE_PHASES.IDENTIFICATION].status = RESPONSE_STATUS.IN_PROGRESS,
     !.timeline[RESPONSE_PHASES.IDENTIFICATION].startTime = t,
     !.responseSteps =
        [i \in 1..Len(responsePlan.responseSteps) |->
           [responsePlan.responseSteps[i] EXCEPT
              !.status = RESPONSE_STATUS.IN_PROGRESS, !.startTime = t]],
     !.notes = Append(responsePlan.notes,
                 Note(t, "System", "Incident response initiated", -1,
                      RESPONSE_PHASES.IDENTIFICATION))]

\* startResponse(responsePlan)
startResponse(responsePlan, t) ==
  [responsePlan EXCEPT
     !.status = RESPONSE_STATUS.IN_PROGRESS,
     !.startTime = t,
     !.timeline[RESPONSE_PHASES.IDENTIFICATION].status = RESPONSE_STATUS.IN_PROGRESS,
     !.timeline[RESPONSE_PHASES.IDENTIFICATION].startTime = t,
     !.responseSteps =
        [i \in 1..Len(responsePlan.responseSteps) |->
           LET step == responsePlan.responseSteps[i]
           IN IF step.phase = RESPONSE_PHASES.IDENTIFICATION
              THEN [step EXCEPT !.status = RESPONSE_STATUS.IN_PROGRESS,
                                !.startTime = t]
              ELSE step],
     !.notes = Append(responsePlan.notes,
                 Note(t, "System", "Incident response initiated", -1,
                      RESPONSE_PHASES.IDENTIFICATION))]

\* Math.floor((progressPercentage / 100) * phases.length), clamped
CurrentPhaseIndex(progressPercentage) ==
  LET raw == (progressPercentage * Len(PhaseKeys)) \div 100
  IN IF raw >= Len(PhaseKeys) THEN Len(PhaseKeys) - 1 ELSE raw

\* ProgressTimeline with the current phase left in progress at 100 percent
\* (the `progressPercentage < 100` test dropped)
ProgressTimeline_KeepsCurrentOpen(timeline, progressPercentage, t) ==
  LET currentPhaseIndex == CurrentPhaseIndex(progressPercentage)
  IN [ph \in DOMAIN timeline |->
        IF \E i \in 0..currentPhaseIndex : PhaseAt(i) = ph
        THEN LET i == CHOOSE j \in 0..currentPhaseIndex : PhaseAt(j) = ph
                 e == timeline[ph]
             IN IF i = currentPhaseIndex
                THEN [e EXCEPT !.status = RESPONSE_STATUS.IN_PROGRESS,
                               !.startTime = IF Falsy(e.startTime) THEN t ELSE @]
                ELSE [e EXCEPT !.status = RESPONSE_STATUS.COMPLETED,
                               !.startTime = IF Falsy(e.startTime) THEN t ELSE @,
                               !.endTime = IF Falsy(e.endTime) THEN t ELSE @]
        ELSE timeline[ph]]

\* ProgressTimeline with the `!endTime` guard dropped: a completed phase is
\* stamped again on every call
ProgressTimeline_Restamps(timeline, progressPercentage, t) ==
  LET currentPhaseIndex == CurrentPhaseIndex(progressPercentage)
  IN [ph \in DOMAIN timeline |->
        IF \E i \in 0..currentPhaseIndex : PhaseAt(i) = ph
        THEN LET i == CHOOSE j \in 0..currentPhaseIndex : PhaseAt(j) = ph
                 e == timeline[ph]
             IN IF i = currentPhaseIndex /\ progressPercentage < 100
                THEN [e EXCEPT !.status = RESPONSE_STATUS.IN_PROGRESS,
                               !.startTime = IF Falsy(e.startTime) THEN t ELSE @]
                ELSE [e EXCEPT !.status = RESPONSE_STATUS.COMPLETED,
                               !.startTime = IF Falsy(e.startTime) THEN t ELSE @,
                               !.endTime = t]
        ELSE timeline[ph]]

\* The timeline loop of simulateResponseProgress
ProgressTimeline(timeline, progressPercentage, t) ==
  LET currentPhaseIndex == CurrentPhaseIndex(progressPercentage)
  IN [ph \in DOMAIN timeline |->
        IF \E i \in 0..currentPhaseIndex : PhaseAt(i) = ph
        THEN LET i == CHOOSE j \in 0..currentPhaseIndex : PhaseAt(j) = ph
                 e == timeline[ph]
             IN IF i = currentPhaseIndex /\ progressPercentage < 100
                THEN [e EXCEPT !.status = RESPONSE_STATUS.IN_PROGRESS,
                               !.startTime = IF Falsy(e.startTime) THEN t ELSE @]
                ELSE [e EXCEPT !.status = RESPONSE_STATUS.COMPLETED,
                               !.startTime = IF Falsy(e.startTime) THEN t ELSE @,
                               !.endTime = IF Falsy(e.endTime) THEN t ELSE @]
        ELSE timeline[ph]]

\* The step loop of simulateResponseProgress
ProgressSteps(steps, progressPercentage, t) ==
  LET currentPhaseIndex == CurrentPhaseIndex(progressPercentage)
  IN [k \in 1..Len(steps) |->
        LET step == steps[k]
            stepPhaseIndex == IndexOf(PhaseKeys, ToUpperCase(step.phase))
        IN IF stepPhaseIndex < currentPhaseIndex
           THEN [step EXCEPT !.status = RESPONSE_STATUS.COMPLETED,
                             !.startTime = IF Falsy(step.startTime) THEN t ELSE @,
                             !.endTime = IF Falsy(step.endTime) THEN t ELSE @]
           ELSE IF stepPhaseIndex = currentPhaseIndex
           THEN IF progressPercentage = 100
                THEN [step EXCEPT !.status = RESPONSE_STATUS.COMPLETED,
                                  !.startTime = IF Falsy(step.startTime) THEN t ELSE @,
                                  !.endTime = IF Falsy(step.endTime) THEN t ELSE @]
                ELSE [step EXCEPT !.status = RESPONSE_STATUS.IN_PROGRESS,
                                  !.startTime = IF Falsy(step.startTime) THEN t ELSE @]
           ELSE step]

\* simulateResponseProgress with the early return taken only for a plan
\* without start time (the `status === COMPLETED` test dropped)
simulateResponseProgress_OnCompleted(responsePlan, progressPercentage, t) ==
  IF Falsy(responsePlan.startTime)
  THEN responsePlan
  ELSE
    LET currentPhase == PhaseAt(CurrentPhaseIndex(progressPercentage))
        progressed ==
          [responsePlan EXCEPT
             !.currentPhase = currentPhase,
             !.timeline = ProgressTimeline(responsePlan.timeline, progressPercentage, t),
             !.responseSteps = ProgressSteps(responsePlan.responseSteps,
                                             progressPercentage, t)]
    IN IF progressPercentage >= 100
       THEN [progressed EXCEPT
               !.status = RESPONSE_STATUS.COMPLETED,
               !.actualCompletionTime = t,
               !.notes = Append(@, Note(t, "System", "Incident response completed",
                                        -1, "all"))]
       ELSE [progressed EXCEPT
               !.notes = Append(@, Note(t, "System", "Response progress",
                                        progressPercentage, currentPhase))]

\* simulateResponseProgress(responsePlan, progressPercentage)
simulateResponseProgress(responsePlan, progressPercentage, t) ==
  IF Falsy(responsePlan.startTime) \/ responsePlan.status = RESPONSE_STATUS.COMPLETED
  THEN responsePlan
  ELSE
    LET currentPhase == PhaseAt(CurrentPhaseIndex(progressPercentage))
        progressed ==
          [responsePlan EXCEPT
             !.currentPhase = currentPhase,
             !.timeline = ProgressTimeline(responsePlan.timeline, progressPercentage, t),
             !.responseSteps = ProgressSteps(responsePlan.responseSteps,
                                             progressPercentage, t)]
    IN IF progressPercentage >= 100
       THEN [progressed EXCEPT
               !.status = RESPONSE_STATUS.COMPLETED,
               !.actualCompletionTime = t,
               !.notes = Append(@, Note(t, "System", "Incident response completed",
                                        -1, "all"))]
       ELSE [progressed EXCEPT
               !.notes = Append(@, Note(t, "System", "Response progress",
                                        progressPercentage, currentPhase))]

\* addResponseNote with the log replaced by the new note instead of extended
addResponseNote_Replaces(responsePlan, author, content, t) ==
  [responsePlan EXCEPT !.notes = <<Note(t, author, content, -1, "none")>>]

\* addResponseNote(responsePlan, author, content)
addResponseNote(responsePlan, author, content, t) ==
  [responsePlan EXCEPT !.notes = Append(@, Note(t, author, content, -1, "none"))]

\* updateResponsePhase completing the response on recovery as well
updateResponsePhase_CompletesOnRecovery(response, newPhase, notes, t) ==
  [response EXCEPT
     !.phase = newPhase,
     !.status = IF newPhase = RESPONSE_PHASES.LESSONS_LEARNED
                   \/ newPhase = RESPONSE_PHASES.RECOVERY
                THEN RESPONSE_STATUS.COMPLETED ELSE @,
     !.notes = Append(@, Note(t, "System", "Response phase updated", -1, newPhase))
               \o (IF notes # "" THEN <<Note(t, "Responder", notes, -1, "none")>>
                   ELSE <<>>)]

\* updateResponsePhase(response, newPhase, notes); notes = "" stands for the
\* null default
updateResponsePhase(response, newPhase, notes, t) ==
  [response EXCEPT
     !.phase = newPhase,
     !.status = IF newPhase = RESPONSE_PHASES.LESSONS_LEARNED
                THEN RESPONSE_STATUS.COMPLETED ELSE @,
     !.notes = Append(@, Note(t, "System", "Response phase updated", -1, newPhase))
               \o (IF notes # "" THEN <<Note(t, "Responder", notes, -1, "none")>>
                   ELSE <<>>)]

----------------------------------------------------------------------------
(* Reports *)

CompletedSteps(responsePlan) ==
  Cardinality({k \in 1..Len(responsePlan.responseSteps) :
                 responsePlan.responseSteps[k].status = RESPONSE_STATUS.COMPLETED})

\* calculateCompletionPercentage without the division by the step count
calculateCompletionPercentage_NoRatio(responsePlan) ==
  IF responsePlan.status = RESPONSE_STATUS.COMPLETED THEN Num(100)
  ELSE IF responsePlan.status = RESPONSE_STATUS.PENDING THEN Num(0)
  ELSE Num(CompletedSteps(responsePlan) * 100)

\* calculateCompletionPercentage(responsePlan); Math.round(c / n * 100) is
\* NaN for an empty step list
calculateCompletionPercentage(responsePlan) ==
  IF responsePlan.status = RESPONSE_STATUS.COMPLETED THEN Num(100)
  ELSE IF responsePlan.status = RESPONSE_STATUS.PENDING THEN Num(0)
  ELSE LET n == Len(responsePlan.responseSteps)
           c == CompletedSteps(responsePlan)
       IN IF n = 0 THEN NaN ELSE Num((200 * c + n) \div (2 * n))

\* new Date(x).getTime() in minutes: null is the epoch, undefined is invalid
DateOf(x) == IF x = Undefined THEN NaN ELSE IF x = Null THEN Num(0) ELSE Num(x)

\* Math.round((endTime - startTime) / (1000 * 60))
ElapsedMinutes(startTime, endTime) ==
  LET a == DateOf(startTime)
      b == DateOf(endTime)
  IN IF a.nan \/ b.nan THEN NaN ELSE Num(b.val - a.val)

\* generateRecommendations(responsePlan); the switch reads
\* responsePlan.threatType, which is undefined on an object without that key
generateRecommendations(responsePlan) ==
  LET threatType == IF "threatType" \in DOMAIN responsePlan
                    THEN responsePlan.threatType ELSE "undefined"
      totalResponseTimeMinutes ==
        ElapsedMinutes(responsePlan.startTime, responsePlan.actualCompletionTime)
  IN (IF /\ ~Falsy(responsePlan.actualCompletionTime)
         /\ ~totalResponseTimeMinutes.nan
         /\ ~responsePlan.estimatedCompletionTime.nan
         /\ totalResponseTimeMinutes.val > responsePlan.estimatedCompletionTime.val
      THEN <<"Response took longer than estimated. Consider reviewing team allocation and procedures.">>
      ELSE <<>>)
     \o (IF threatType = THREAT_TYPES.UNAUTHORIZED_ACCESS
         THEN <<"Implement stronger authentication mechanisms across similar devices.",
                "Review access control policies and procedures.">>
         ELSE IF threatType = THREAT_TYPES.DATA_MANIPULATION
         THEN <<"Implement data integrity verification mechanisms.",
                "Consider blockchain or cryptographic solutions for critical data.">>
         ELSE IF threatType = THREAT_TYPES.FIRMWARE_TAMPERING
         THEN <<"Implement secure boot and firmware signature verification.",
                "Establish regular firmware update and verification schedule.">>
         ELSE IF threatType = THREAT_TYPES.MALWARE \/ threatType = THREAT_TYPES.RANSOMWARE
         THEN <<"Enhance endpoint protection on all connected devices.",
                "Implement network segmentation to limit lateral movement.">>
         ELSE <<"Review security posture of similar devices in the network.">>)
     \o <<"Conduct training exercises for similar scenarios.",
          "Update incident response playbooks based on lessons learned.">>

\* generateResponseReport(responsePlan)
generateResponseReport(responsePlan) ==
  IF responsePlan.status # RESPONSE_STATUS.COMPLETED
  THEN [incidentId |-> responsePlan.incidentId,
        status |-> "Incomplete",
        completionPercentage |-> calculateCompletionPercentage(responsePlan)]
  ELSE
    LET totalResponseTimeMinutes ==
          ElapsedMinutes(responsePlan.startTime, responsePlan.actualCompletionTime)
    IN [incidentId |-> responsePlan.incidentId,
        severity |-> responsePlan.severity,
        status |-> "Completed",
        startTime |-> responsePlan.startTime,
        completionTime |-> responsePlan.actualCompletionTime,
        totalResponseTimeMinutes |-> totalResponseTimeMinutes,
        estimatedTimeMinutes |-> responsePlan.estimatedCompletionTime,
        withinEstimatedTime |->
          (~totalResponseTimeMinutes.nan /\ ~responsePlan.estimatedCompletionTime.nan
           /\ totalResponseTimeMinutes.val <= responsePlan.estimatedCompletionTime.val),
        stepsCompleted |-> CompletedSteps(responsePlan),
        totalSteps |-> Len(responsePlan.responseSteps),
        recommendations |-> generateRecommendations(responsePlan)]

----------------------------------------------------------------------------
(* Inputs of the planner *)

IncidentIds == {"INC-1", "INC-2"}

\* The alerts (threat type, severity, device category) whose plans the
\* lifecycle is explored on; between them the step lists cover every phase
PlanCases ==
  {<<THREAT_TYPES.UNAUTHORIZED_ACCESS, SEVERITY.HIGH, "camera">>,
   <<THREAT_TYPES.RANSOMWARE, SEVERITY.LOW, "powerGrid">>,
   <<THREAT_TYPES.DENIAL_OF_SERVICE, SEVERITY.MEDIUM, "waterSensor">>}

InputStatuses ==
  {RESPONSE_STATUS.PENDING, RESPONSE_STATUS.IN_PROGRESS, RESPONSE_STATUS.FAILED}

\* progressPercentage arguments
Percentages == {0, 40, 80, 100, 120}

\* newPhase arguments of updateResponsePhase
NewPhases ==
  {RESPONSE_PHASES.IDENTIFICATION, RESPONSE_PHASES.CONTAINMENT,
   RESPONSE_PHASES.RECOVERY, RESPONSE_PHASES.LESSONS_LEARNED, "escalation"}

\* notes arguments of updateResponsePhase ("" is the null default)
PhaseNotes == {"", "Escalated to Tier 3"}

\* What a call leaves of the plan object it was given: `{ ...responsePlan }`
\* copies the top-level fields only, so the timeline, the step objects and
\* the notes array of the returned plan are the argument's own, and the
\* writes made through the copy show in the argument; the fields assigned on
\* the copy itself (status, startTime, phase, ...) keep their old value there.
ArgumentAfter(responsePlan, updatedPlan) ==
  [responsePlan EXCEPT
     !.timeline = updatedPlan.timeline,
     !.responseSteps = updatedPlan.responseSteps,
     !.notes = updatedPlan.notes]

\* A call record: the operation, its numeric argument (-1 if none), the
\* incident id it was given ("" if none) and whether it raised
Call(op, arg, id, threw) == [op |-> op, arg |-> arg, id |-> id, threw |-> threw]

----------------------------------------------------------------------------
(* Planner operations as steps of the program *)

\* A caller obtains a plan for an alert
ReceivePlan ==
  /\ ~plan.exists
  /\ \E id \in IncidentIds, c \in PlanCases, st \in InputStatuses :
       /\ plan' = PlanInput(id, c[1], c[2], c[3], st, now)
       /\ call' = Call("planInput", -1, id, FALSE)
  /\ report' = NoReport
  /\ argument' = NoPlan
  /\ UNCHANGED <<now, alert, ledgerVars, simVars>>

\* createNewResponse / fetchResponseData (active incidents): initiateResponse
DoInitiateResponse ==
  /\ ~plan.exists
  /\ \E id \in IncidentIds, t \in ThreatTypes, s \in Severities :
       LET r == initiateResponse(id, t, s, now)
       IN /\ plan' = IF r.threw THEN plan ELSE r.value
          /\ call' = Call("initiateResponse", -1, id, r.threw)
  /\ report' = NoReport
  /\ argument' = NoPlan
  /\ UNCHANGED <<now, alert, ledgerVars, simVars>>

\* fetchResponseData (resolved incidents): initiateResponse, then the
\* provider marks the response completed and asks for its report
DoFetchResolved ==
  /\ ~plan.exists
  /\ \E id \in IncidentIds, t \in ThreatTypes, s \in Severities, e \in 0..1 :
       LET r == initiateResponse(id, t, s, now)
       IN IF r.threw
          THEN /\ call' = Call("fetchResponseData", -1, id, TRUE)
               /\ report' = NoReport
               /\ UNCHANGED plan
          ELSE LET response == [r.value EXCEPT !.phase = RESPONSE_PHASES.RECOVERY,
                                               !.status = RESPONSE_STATUS.COMPLETED,
                                               !.endTime = now + e]
               IN /\ plan' = response
                  /\ report' = generateResponseReport(response)
                  /\ call' = Call("fetchResponseData", -1, id, FALSE)
  /\ argument' = NoPlan
  /\ UNCHANGED <<now, alert, ledgerVars, simVars>>

DoCreateResponsePlan ==
  /\ ~plan.exists
  /\ \E id \in IncidentIds, t \in ThreatTypes, s \in Severities :
       LET r == createResponsePlan([id |-> id, type |-> t, severity |-> s], now)
       IN /\ plan' = IF r.threw THEN plan ELSE r.value
          /\ call' = Call("createResponsePlan", -1, id, r.threw)
  /\ report' = NoReport
  /\ argument' = NoPlan
  /\ UNCHANGED <<now, alert, ledgerVars, simVars>>

\* simulateIncidentResponse(threatAlert, progressPercentage)
DoSimulateIncidentResponse ==
  /\ ~plan.exists
  /\ \E id \in IncidentIds, t \in ThreatTypes, s \in Severities, p \in Percentages :
       LET r == createResponsePlan([id |-> id, type |-> t, severity |-> s], now)
       IN IF r.threw \/ "responseSteps" \notin DOMAIN r.value
          THEN /\ call' = Call("simulateIncidentResponse", p, id, TRUE)
               /\ report' = NoReport
               /\ UNCHANGED plan
          ELSE LET responsePlan ==
                     simulateResponseProgress(startResponse(r.value, now), p, now)
               IN /\ plan' = responsePlan
                  /\ report' = IF p >= 100 THEN generateResponseReport(responsePlan)
                               ELSE NoReport
                  /\ call' = Call("simulateIncidentResponse", p, id, FALSE)
  /\ argument' = NoPlan
  /\ UNCHANGED <<now, alert, ledgerVars, simVars>>

DoStartResponse ==
  /\ plan.exists
  /\ Len(plan.notes) < MaxNotes
  /\ plan' = startResponse(plan, now)
  /\ argument' = ArgumentAfter(plan, startResponse(plan, now))
  /\ call' = Call("startResponse", -1, "", FALSE)
  /\ report' = NoReport
  /\ UNCHANGED <<now, alert, ledgerVars, simVars>>

DoSimulateResponseProgress ==
  /\ plan.exists
  /\ Len(plan.notes) < MaxNotes
  /\ \E p \in Percentages :
       /\ plan' = simulateResponseProgress(plan, p, now)
       /\ argument' = ArgumentAfter(plan, simulateResponseProgress(plan, p, now))
       /\ call' = Call("simulateResponseProgress", p, "", FALSE)
  /\ report' = NoReport
  /\ UNCHANGED <<now, alert, ledgerVars, simVars>>

DoAddResponseNote ==
  /\ plan.exists
  /\ Len(plan.notes) < MaxNotes
  /\ plan' = addResponseNote(plan, "Analyst", "Checked device logs", now)
  /\ argument' = ArgumentAfter(plan, addResponseNote(plan, "Analyst",
                                                      "Checked device logs", now))
  /\ call' = Call("addResponseNote", -1, "", FALSE)
  /\ report' = NoReport
  /\ UNCHANGED <<now, alert, ledgerVars, simVars>>

DoUpdateResponsePhase ==
  /\ plan.exists
  /\ \E newPhase \in NewPhases, notes \in PhaseNotes :
       /\ Len(plan.notes) + (IF notes = "" THEN 1 ELSE 2) <= MaxNotes
       /\ plan' = updateResponsePhase(plan, newPhase, notes, now)
       /\ argument' = ArgumentAfter(plan, updateResponsePhase(plan, newPhase, notes, now))
  /\ call' = Call("updateResponsePhase", -1, "", FALSE)
  /\ report' = NoReport
  /\ UNCHANGED <<now, alert, ledgerVars, simVars>>

\* ResponseContext.updateResponse(responseId, newPhase, notes)
DoUpdateResponse ==
  /\ plan.exists
  /\ \E newPhase \in NewPhases, notes \in PhaseNotes :
       /\ Len(plan.notes) + (IF notes = "" THEN 1 ELSE 2) <= MaxNotes
       /\ LET updatedResponse == updateResponsePhase(plan, newPhase, notes, now)
          IN IF updatedResponse.status = RESPONSE_STATUS.COMPLETED
             THEN /\ plan' = [updatedResponse EXCEPT !.endTime = now]
                  /\ report' = generateResponseReport(
                                 [updatedResponse EXCEPT !.endTime = now])
             ELSE /\ plan' = updatedResponse
                  /\ report' = NoReport
       /\ argument' = ArgumentAfter(plan, updateResponsePhase(plan, newPhase, notes, now))
  /\ call' = Call("updateResponse", -1, "", FALSE)
  /\ UNCHANGED <<now, alert, ledgerVars, simVars>>

DoGenerateResponseReport ==
  /\ plan.exists
  /\ report' = generateResponseReport(plan)
  /\ call' = Call("generateResponseReport", -1, "", FALSE)
  /\ argument' = plan
  /\ UNCHANGED <<plan, now, alert, ledgerVars, simVars>>

\* Time passes between two calls
Tick ==
  /\ now < MaxTime
  /\ now' = now + 1
  /\ UNCHANGED <<plan, argument, report, call, alert, ledgerVars, simVars>>

----------------------------------------------------------------------------
(* Threat classifier *)

\* Math.random() in analyzeDeviceBehavior, in hundredths: [0, 1)
AnomalyScores == 0..99

\* analyzeDeviceBehavior with the anomaly threshold made inclusive
analyzeDeviceBehavior_Inclusive(deviceType, anomalyScore) ==
  [anomalyScore |-> anomalyScore,
   patterns |->
     IF deviceType = "camera" /\ anomalyScore > 70
     THEN <<"Unusual access pattern", "Irregular data transmission">>
     ELSE IF deviceType = "trafficLight" /\ anomalyScore > 80
     THEN <<"Signal timing manipulation", "Unexpected configuration changes">>
     ELSE IF deviceType = "waterSensor" /\ anomalyScore > 75
     THEN <<"Reading fluctuation outside normal parameters", "Calibration drift">>
     ELSE IF anomalyScore > 90
     THEN <<"Communication protocol violation", "Unexpected firmware behavior">>
     ELSE <<>>,
   isAnomaly |-> anomalyScore >= 70]

\* analyzeDeviceBehavior(device, historicalData) for a drawn anomaly score
analyzeDeviceBehavior(deviceType, anomalyScore) ==
  [anomalyScore |-> anomalyScore,
   patterns |->
     IF deviceType = "camera" /\ anomalyScore > 70
     THEN <<"Unusual access pattern", "Irregular data transmission">>
     ELSE IF deviceType = "trafficLight" /\ anomalyScore > 80
     THEN <<"Signal timing manipulation", "Unexpected configuration changes">>
     ELSE IF deviceType = "waterSensor" /\ anomalyScore > 75
     THEN <<"Reading fluctuation outside normal parameters", "Calibration drift">>
     ELSE IF anomalyScore > 90
     THEN <<"Communication protocol violation", "Unexpected firmware behavior">>
     ELSE <<>>,
   isAnomaly |-> anomalyScore > 70]

NoBehavior == [absent |-> TRUE]

\* ImpactLevel with the high and critical branches merged
ImpactLevel_HighIsSevere(severity) ==
  CASE severity = SEVERITY.CRITICAL -> "severe"
    [] severity = SEVERITY.HIGH -> "severe"
    [] severity = SEVERITY.MEDIUM -> "moderate"
    [] severity = SEVERITY.LOW -> "minor"
    [] OTHER -> "unknown"

\* The impactLevel switch of classifyThreat
ImpactLevel(severity) ==
  CASE severity = SEVERITY.CRITICAL -> "severe"
    [] severity = SEVERITY.HIGH -> "significant"
    [] severity = SEVERITY.MEDIUM -> "moderate"
    [] severity = SEVERITY.LOW -> "minor"
    [] OTHER -> "unknown"

ClassifiedActions(threatType) ==
  CASE threatType = THREAT_TYPES.UNAUTHORIZED_ACCESS ->
         <<"Lock affected accounts", "Force password reset", "Review access logs",
           "Enable additional authentication factors">>
    [] threatType = THREAT_TYPES.DATA_MANIPULATION ->
         <<"Restore from backup", "Verify data integrity", "Audit recent changes",
           "Implement additional validation checks">>
    [] threatType = THREAT_TYPES.FIRMWARE_TAMPERING ->
         <<"Restore original firmware", "Isolate affected device",
           "Scan for malicious code", "Update security patches">>
    [] threatType = THREAT_TYPES.COMMUNICATION_HIJACKING ->
         <<"Isolate affected systems", "Reset communication channels",
           "Implement additional encryption", "Monitor for unusual traffic patterns">>
    [] threatType = THREAT_TYPES.MALWARE ->
         <<"Isolate affected systems", "Run full system scan",
           "Remove identified malware", "Update antivirus definitions">>
    [] threatType = THREAT_TYPES.RANSOMWARE ->
         <<"Disconnect from network immediately", "Isolate affected systems",
           "Restore from clean backups", "Report to authorities">>
    [] threatType = THREAT_TYPES.DENIAL_OF_SERVICE ->
         <<"Implement traffic filtering", "Scale resources if possible",
           "Contact network provider", "Analyze traffic patterns">>
    [] threatType = THREAT_TYPES.CREDENTIAL_THEFT ->
         <<"Force password reset", "Enable multi-factor authentication",
           "Review access logs", "Monitor for unusual account activity">>
    [] OTHER ->
         <<"Monitor system activity", "Backup critical data", "Review security logs",
           "Prepare for escalation if needed">>

\* classifyThreat(threatType, severity, behavior); confidence in thousandths.
\* `behavior && behavior.anomalyScore` is falsy for a missing record and for
\* a score of 0.
classifyThreat(threatType, severity, behavior) ==
  [type |-> threatType,
   severity |-> severity,
   confidence |->
     IF "anomalyScore" \in DOMAIN behavior /\ behavior.anomalyScore # 0
     THEN 500 + behavior.anomalyScore * 4
     ELSE 700,
   impactLevel |-> ImpactLevel(severity),
   recommendedActions |-> ClassifiedActions(threatType),
   status |-> THREAT_STATUS.DETECTED]

\* The width of the random range added to the severity's base risk score
RiskSpread(severity) ==
  CASE severity = SEVERITY.CRITICAL -> 10
    [] severity = SEVERITY.HIGH -> 20
    [] severity = SEVERITY.MEDIUM -> 30
    [] severity = SEVERITY.LOW -> 30
    [] OTHER -> 15

RiskBase(severity) ==
  CASE severity = SEVERITY.CRITICAL -> 90
    [] severity = SEVERITY.HIGH -> 70
    [] severity = SEVERITY.MEDIUM -> 40
    [] severity = SEVERITY.LOW -> 10
    [] OTHER -> 5

\* Math.min(99, riskScore + confidence * 10), in hundredths; an undefined
\* confidence makes the sum, and with it the minimum, NaN
AdjustRisk(riskScore, confidence) ==
  IF confidence = Undefined THEN NaN
  ELSE LET sum == riskScore * 100 + confidence
       IN Num(IF sum > 9900 THEN 9900 ELSE sum)

\* const { threatType, severity, confidence } = threatData
FieldOrUndefined(obj, field, undefinedValue) ==
  IF field \in DOMAIN obj THEN obj[field] ELSE undefinedValue

\* generateThreatAlert(device, threatData); draw = Math.floor(Math.random() * k)
generateThreatAlert(deviceType, threatData, draw) ==
  LET threatType == FieldOrUndefined(threatData, "threatType", "undefined")
      severity == FieldOrUndefined(threatData, "severity", "undefined")
      confidence == FieldOrUndefined(threatData, "confidence", Undefined)
  IN [kind |-> "alert",
      deviceType |-> deviceType,
      threatType |-> threatType,
      severity |-> severity,
      confidence |-> confidence,
      status |-> THREAT_STATUS.NEW,
      recommendedActions |-> generateRecommendedActions(threatType, severity, deviceType),
      riskScore |-> AdjustRisk(RiskBase(severity) + draw, confidence)]

\* The pattern cascade with the firmware-behavior test moved ahead of the
\* protocol-violation test
SelectClassification_FirmwareFirst(patterns) ==
  IF Includes(patterns, "Unusual access pattern")
  THEN <<THREAT_TYPES.UNAUTHORIZED_ACCESS, SEVERITY.HIGH>>
  ELSE IF Includes(patterns, "Signal timing manipulation")
  THEN <<THREAT_TYPES.DATA_MANIPULATION, SEVERITY.CRITICAL>>
  ELSE IF Includes(patterns, "Reading fluctuation outside normal parameters")
  THEN <<THREAT_TYPES.DATA_MANIPULATION, SEVERITY.MEDIUM>>
  ELSE IF Includes(patterns, "Unexpected firmware behavior")
  THEN <<THREAT_TYPES.FIRMWARE_TAMPERING, SEVERITY.CRITICAL>>
  ELSE IF Includes(patterns, "Communication protocol violation")
  THEN <<THREAT_TYPES.COMMUNICATION_HIJACKING, SEVERITY.HIGH>>
  ELSE <<THREAT_TYPES.UNAUTHORIZED_ACCESS, SEVERITY.MEDIUM>>

\* The pattern cascade of simulateAIDetection
SelectClassification(patterns) ==
  IF Includes(patterns, "Unusual access pattern")
  THEN <<THREAT_TYPES.UNAUTHORIZED_ACCESS, SEVERITY.HIGH>>
  ELSE IF Includes(patterns, "Signal timing manipulation")
  THEN <<THREAT_TYPES.DATA_MANIPULATION, SEVERITY.CRITICAL>>
  ELSE IF Includes(patterns, "Reading fluctuation outside normal parameters")
  THEN <<THREAT_TYPES.DATA_MANIPULATION, SEVERITY.MEDIUM>>
  ELSE IF Includes(patterns, "Communication protocol violation")
  THEN <<THREAT_TYPES.COMMUNICATION_HIJACKING, SEVERITY.HIGH>>
  ELSE IF Includes(patterns, "Unexpected firmware behavior")
  THEN <<THREAT_TYPES.FIRMWARE_TAMPERING, SEVERITY.CRITICAL>>
  ELSE <<THREAT_TYPES.UNAUTHORIZED_ACCESS, SEVERITY.MEDIUM>>

\* simulateAIDetection(device) for a drawn anomaly score and risk draw
simulateAIDetection(deviceType, anomalyScore, draw) ==
  LET anomalyData == analyzeDeviceBehavior(deviceType, anomalyScore)
  IN IF ~anomalyData.isAnomaly
     THEN NoAlert
     ELSE LET sel == SelectClassification(anomalyData.patterns)
              threatData == classifyThreat(sel[1], sel[2], anomalyData)
          IN generateThreatAlert(deviceType, threatData, draw)

\* The risk draws Math.floor(Math.random() * k) can give for a severity
RiskDraws(severity) == 0..(RiskSpread(severity) - 1)

\* The classifier keeps no state between calls: each behaviour of SpecDetect
\* is one call on drawn inputs.
DoSimulateAIDetection ==
  /\ call.op = "none"
  /\ \E deviceType \in DeviceTypes, anomalyScore \in AnomalyScores :
       LET sel == SelectClassification(
                    analyzeDeviceBehavior(deviceType, anomalyScore).patterns)
       IN \E draw \in RiskDraws(sel[2]) :
            /\ alert' = simulateAIDetection(deviceType, anomalyScore, draw)
            /\ call' = Call("simulateAIDetection", anomalyScore, "", FALSE)
  /\ UNCHANGED <<plan, argument, report, now, ledgerVars, simVars>>

\* ThreatContext.simulateNewAlert(deviceId, threatType, severity) for a
\* device of the registry
DoSimulateNewAlert ==
  /\ call.op = "none"
  /\ \E deviceType \in DeviceTypes, threatType \in ThreatTypes,
        severity \in Severities, anomalyScore \in AnomalyScores :
       LET behavior == analyzeDeviceBehavior(deviceType, anomalyScore)
           threatDetails == classifyThreat(threatType, severity, behavior)
       IN \E draw \in RiskDraws(severity) :
            /\ alert' = generateThreatAlert(deviceType,
                          [type |-> threatType, severity |-> severity,
                           behavior |-> behavior, threatDetails |-> threatDetails],
                          draw)
            /\ call' = Call("simulateNewAlert", anomalyScore, "", FALSE)
  /\ UNCHANGED <<plan, argument, report, now, ledgerVars, simVars>>

\* threatType and severity arguments of a direct classifyThreat call: the
\* enumerations and one value outside each
ClassifyTypes == ThreatTypes \cup {"Zero-day Exploit"}
ClassifySeverities == Severities \cup {"extreme"}

\* classifyThreat(threatType, severity, behavior) called directly, with or
\* without a behaviour record
DoClassifyThreat ==
  /\ call.op = "none"
  /\ \E threatType \in ClassifyTypes, severity \in ClassifySeverities,
        deviceType \in DeviceTypes, anomalyScore \in AnomalyScores, given \in BOOLEAN :
       LET behavior == IF given THEN analyzeDeviceBehavior(deviceType, anomalyScore)
                       ELSE NoBehavior
       IN /\ alert' = [kind |-> "classification",
                       value |-> classifyThreat(threatType, severity, behavior)]
          /\ call' = Call("classifyThreat", IF given THEN anomalyScore ELSE -1, "", FALSE)
  /\ UNCHANGED <<plan, argument, report, now, ledgerVars, simVars>>

\* simulatedDatabase.generateThreatAlerts: classifyThreat(behaviorAnalysis)
\* receives the behaviour record as its threat type and nothing else
DoGenerateThreatAlerts ==
  /\ call.op = "none"
  /\ \E deviceType \in DeviceTypes :
       LET threatClassification == classifyThreat("[object Object]", "undefined", NoBehavior)
       IN \E draw \in RiskDraws("undefined") :
            /\ alert' = generateThreatAlert(deviceType, threatClassification, draw)
            /\ call' = Call("generateThreatAlerts", -1, "", FALSE)
  /\ UNCHANGED <<plan, argument, report, now, ledgerVars, simVars>>

----------------------------------------------------------------------------
(* The incident ledger (blockchainLogger.js) *)

\* A 32-bit signed integer after one round of generateHash's loop:
\* ((hash << 5) - hash) + char, then `hash & hash`, that is 31 * hash + char
\* reduced to 32 bits, computed on 16-bit halves
HashStep(hash, char) ==
  LET hi == (hash \div 65536) % 65536
      lo == hash % 65536
      lo2 == lo * 31 + char
      hi2 == (hi * 31 + lo2 \div 65536) % 65536
      lo3 == lo2 % 65536
  IN IF hi2 >= 32768 THEN (hi2 - 65536) * 65536 + lo3 ELSE hi2 * 65536 + lo3

RECURSIVE HashOfChars(_, _)
\* The loop of generateHash over the character codes of a string
HashOfChars(chars, hash) ==
  IF chars = <<>> THEN hash
  ELSE HashOfChars(Tail(chars), HashStep(hash, Head(chars)))

HexDigit == <<"0", "1", "2", "3", "4", "5", "6", "7",
              "8", "9", "a", "b", "c", "d", "e", "f">>

RECURSIVE HexOfNat(_)
HexOfNat(n) ==
  IF n < 16 THEN <<HexDigit[n + 1]>>
  ELSE HexOfNat(n \div 16) \o <<HexDigit[(n % 16) + 1]>>

\* Number.prototype.toString(16) of a 32-bit signed integer, as a sequence of
\* characters
ToString16(n) ==
  IF n >= 0 THEN HexOfNat(n)
  ELSE IF n = -2147483647 - 1
  THEN <<"-", "8", "0", "0", "0", "0", "0", "0", "0">>
  ELSE <<"-">> \o HexOfNat(0 - n)

\* String.prototype.substring(0, 8)
Substring08(str) == SubSeq(str, 1, IF Len(str) < 8 THEN Len(str) ELSE 8)

\* JSON.stringify(data) as character codes: the braces, the message text and,
\* for a logged incident, a comma and the recordedAt stamp
Stringify(data) ==
  <<123>> \o data.message
  \o (IF data.recordedAt = Undefined THEN <<>> ELSE <<44, 48 + data.recordedAt>>)
  \o <<125>>

\* generateHash(data, previousHash)
generateHash(data, previousHash) ==
  ToString16(HashOfChars(Stringify(data), 0)) \o Substring08(previousHash)

ZeroHash ==
  <<"0", "0", "0", "0", "0", "0", "0", "0", "0", "0", "0", "0", "0", "0", "0", "0">>

\* The text of the genesis message ("G") and of the incidents logged
\* ("Aa", "BB", "C"), as character codes
GenesisMessage == <<71>>
Messages == {<<65, 97>>, <<66, 66>>, <<67>>}

\* The block that the module pushes when it is loaded
GenesisBlock(t) ==
  LET data == [message |-> GenesisMessage, recordedAt |-> Undefined]
  IN [index |-> 0,
      timestamp |-> t,
      data |-> data,
      previousHash |-> ZeroHash,
      hash |-> generateHash(data, ZeroHash)]

\* logIncident hashing over the zero hash instead of the stored previousHash
logIncident_HashUnchained(blockchainLedger, incident, t) ==
  LET previousHash == IF Len(blockchainLedger) > 0
                      THEN blockchainLedger[Len(blockchainLedger)].hash
                      ELSE ZeroHash
      data == [message |-> incident, recordedAt |-> t]
  IN [index |-> Len(blockchainLedger),
      timestamp |-> t,
      data |-> data,
      previousHash |-> previousHash,
      hash |-> generateHash(data, ZeroHash)]

\* The block logIncident(incident) pushes on blockchainLedger
logIncident(blockchainLedger, incident, t) ==
  LET previousHash == IF Len(blockchainLedger) > 0
                      THEN blockchainLedger[Len(blockchainLedger)].hash
                      ELSE ZeroHash
      data == [message |-> incident, recordedAt |-> t]
  IN [index |-> Len(blockchainLedger),
      timestamp |-> t,
      data |-> data,
      previousHash |-> previousHash,
      hash |-> generateHash(data, previousHash)]

NoVerdict == [valid |-> FALSE, message |-> "none", block |-> -1]

\* The test verifyLedger applies to the block at 0-based index i >= 1 (the
\* TLA+ sequence index is i + 1)
BlockFault(blockchainLedger, i) ==
  LET currentBlock == blockchainLedger[i + 1]
      previousBlock == blockchainLedger[i]
  IN IF currentBlock.previousHash # previousBlock.hash THEN "Chain broken"
     ELSE IF generateHash(currentBlock.data, currentBlock.previousHash)
               # currentBlock.hash
     THEN "Block has been tampered with"
     ELSE "ok"

\* verifyLedger(): the loop runs over i = 1 .. length - 1 and returns at the
\* first faulty block; `block` is the faulty block's index, or the block count
\* of a valid ledger
verifyLedger(blockchainLedger) ==
  LET faulty == {i \in 1..(Len(blockchainLedger) - 1) :
                   BlockFault(blockchainLedger, i) # "ok"}
  IN IF faulty # {}
     THEN LET i == CHOOSE j \in faulty : \A k \in faulty : j <= k
          IN [valid |-> FALSE, message |-> BlockFault(blockchainLedger, i), block |-> i]
     ELSE [valid |-> TRUE, message |-> "Blockchain ledger is valid",
           block |-> Len(blockchainLedger)]

\* logIncident(incident)
DoLogIncident ==
  /\ Len(ledger) < MaxBlocks
  /\ \E incident \in Messages :
       LET newBlock == logIncident(ledger, incident, now)
       IN /\ ledger' = Append(ledger, newBlock)
          /\ logged' = Append(logged, newBlock.data)
  /\ verdict' = NoVerdict
  /\ UNCHANGED <<plan, argument, report, now, call, alert, simVars>>

\* A holder of the array that getLedger() returns (or of a block that
\* getBlock(i) returns) assigns another message to a block's data
DoTamperData ==
  /\ \E i \in 1..Len(ledger), message \in Messages \cup {GenesisMessage} :
       /\ message # ledger[i].data.message
       /\ ledger' = [ledger EXCEPT ![i].data.message = message]
  /\ verdict' = NoVerdict
  /\ UNCHANGED <<plan, argument, report, now, call, alert, logged, simVars>>

\* verifyLedger()
DoVerifyLedger ==
  /\ verdict' = verifyLedger(ledger)
  /\ UNCHANGED <<plan, argument, report, now, call, alert, ledger, logged, simVars>>

----------------------------------------------------------------------------
(* generateResponseSteps on its own *)

\* Recommended-action strings: four that the lookup tables list, one for each
\* of four phases, and one of classifyThreat's that they do not list
ActionStrings ==
  {"Isolate affected device from network",
   "Capture current device state for forensic analysis",
   "Reset all access credentials",
   "Implement additional authentication measures",
   "Lock affected accounts"}

RECURSIVE ActionLists(_)
\* The lists of exactly n recommended-action strings
ActionLists(n) ==
  IF n = 0 THEN {<<>>}
  ELSE {Append(l, a) : l \in ActionLists(n - 1), a \in ActionStrings}

\* generateResponseSteps(recommendedActions, timeline) called as declared,
\* with the timeline of createResponseTimeline for a threat type and severity
DoGenerateResponseSteps ==
  /\ call.op = "none"
  /\ \E n \in 0..MaxActions, threatType \in ThreatTypes, severity \in Severities :
       \E recommendedActions \in ActionLists(n) :
         LET timeline == createResponseTimeline(threatType, severity)
             r == generateResponseSteps(JsArray(recommendedActions), JsObject(timeline))
         IN /\ alert' = [kind |-> "steps",
                         recommendedActions |-> recommendedActions,
                         timeline |-> timeline,
                         steps |-> r.steps]
            /\ call' = Call("generateResponseSteps", n, "", r.threw)
  /\ UNCHANGED <<plan, argument, report, now, ledgerVars, simVars>>

----------------------------------------------------------------------------
(* SimulationProvider: the scenario simulation of the demo layer *)

\* The simulationSpeed values a caller sets
SimulationSpeeds == {1, 2}

\* A scenario event: its type, its delay in seconds, and the fields
\* processEvent reads for that type
Event(type, delay, severity, action) ==
  [type |-> type, delay |-> delay, severity |-> severity, action |-> action]

\* availableScenarios, by scenario id: the events of each scenario in the
\* order the data lists them
availableScenarios ==
  [s1 |-> <<Event("threat", 2, "critical", ""), Event("response", 0, "", "resolve")>>,
   s2 |-> <<Event("system", 1, "", ""), Event("threat", 4, "low", ""),
            Event("threat", 1, "high", "")>>]

RECURSIVE InsertByDelay(_, _)
\* e put into the delay-sorted list q after the events of the same delay
InsertByDelay(q, e) ==
  IF q = <<>> THEN <<e>>
  ELSE IF e.delay < Head(q).delay THEN <<e>> \o q
  ELSE <<Head(q)>> \o InsertByDelay(Tail(q), e)

RECURSIVE SortByDelay(_)
\* [...events].sort((a, b) => a.delay - b.delay), a stable sort
SortByDelay(events) ==
  IF events = <<>> THEN <<>>
  ELSE InsertByDelay(SortByDelay(SubSeq(events, 1, Len(events) - 1)),
                     events[Len(events)])

\* simulationStats as startSimulation resets it
ZeroStats ==
  [eventsProcessed |-> 0, threatsDetected |-> 0,
   incidentsResolved |-> 0, systemsCompromised |-> 0]

\* simulationIntervalRef.current when no timer is set
NoInterval ==
  [set |-> FALSE, simulationActive |-> FALSE, simulationTime |-> 0,
   simulationSpeed |-> 1, step |-> 1]

\* simulationIntervalRef.current for a running timer. Its callback was
\* created during one render of the provider and keeps the simulationActive,
\* simulationTime and simulationSpeed of that render; step is the number of
\* seconds the callback adds to simulationTime
Interval(active, time, speed, step) ==
  [set |-> TRUE, simulationActive |-> active, simulationTime |-> time,
   simulationSpeed |-> speed, step |-> step]

\* processEvent over eventsToProcess, then the eventsProcessed update
StatsAfter(stats, eventsToProcess) ==
  LET IsThreat(e) == e.type = "threat"
      IsCritical(e) == e.type = "threat" /\ e.severity = "critical"
      IsResolve(e) == e.type = "response" /\ e.action = "resolve"
  IN [eventsProcessed |-> stats.eventsProcessed + Len(eventsToProcess),
      threatsDetected |-> stats.threatsDetected + Len(SelectSeq(eventsToProcess, IsThreat)),
      incidentsResolved |-> stats.incidentsResolved + Len(SelectSeq(eventsToProcess, IsResolve)),
      systemsCompromised |-> stats.systemsCompromised
                               + Len(SelectSeq(eventsToProcess, IsCritical))]

\* Whether processNextEvents, run by the callback cb, takes event e: 
\* event.delay <= currentTimeSeconds * simulationSpeed
IsDue(cb, e) == e.delay <= cb.simulationTime * cb.simulationSpeed

\* startSimulation(scenarioId) for a scenario of availableScenarios, called
\* from the current render; new Date() is any second of the day
DoStartSimulation ==
  /\ \E scenarioId \in DOMAIN availableScenarios, date \in 0..MaxSeconds :
       /\ currentScenario' = scenarioId
       /\ simulationTime' = date
       /\ eventQueueRef' = SortByDelay(availableScenarios[scenarioId])
  /\ simulationStats' = ZeroStats
  /\ simulationActive' = TRUE
  /\ simulationIntervalRef'
       = Interval(simulationActive, simulationTime, simulationSpeed, simulationSpeed)
  /\ UNCHANGED <<plan, argument, report, now, call, alert, ledgerVars, simulationSpeed>>

\* stopSimulation() called by a user of the context
DoStopSimulation ==
  /\ simulationActive \/ simulationIntervalRef.set
  /\ simulationActive' = FALSE
  /\ simulationIntervalRef' = NoInterval
  /\ UNCHANGED <<plan, argument, report, now, call, alert, ledgerVars, simulationSpeed,
                 currentScenario, simulationTime, simulationStats, eventQueueRef>>

\* changeSimulationSpeed(speed), called from the current render
DoChangeSimulationSpeed ==
  /\ \E speed \in SimulationSpeeds \ {simulationSpeed} :
       /\ simulationSpeed' = speed
       /\ simulationIntervalRef'
            = IF simulationActive /\ simulationIntervalRef.set
              THEN Interval(simulationActive, simulationTime, simulationSpeed, speed)
              ELSE simulationIntervalRef
  /\ UNCHANGED <<plan, argument, report, now, call, alert, ledgerVars, simulationActive,
                 currentScenario, simulationTime, simulationStats, eventQueueRef>>

\* One firing of the interval timer: the time update, then processNextEvents
\* as the timer's callback holds it, stopSimulation included. The seconds of
\* the day wrap at midnight
IntervalTick ==
  /\ simulationIntervalRef.set
  /\ LET cb == simulationIntervalRef
         Due(e) == IsDue(cb, e)
         NotDue(e) == ~IsDue(cb, e)
         eventsToProcess == SelectSeq(eventQueueRef, Due)
         remainingEvents == SelectSeq(eventQueueRef, NotDue)
     IN /\ simulationTime' = (simulationTime + cb.step) % (MaxSeconds + 1)
        /\ eventQueueRef' = remainingEvents
        /\ simulationStats' = StatsAfter(simulationStats, eventsToProcess)
        /\ IF remainingEvents = <<>> /\ cb.simulationActive
           THEN /\ simulationActive' = FALSE
                /\ simulationIntervalRef' = NoInterval
           ELSE UNCHANGED <<simulationActive, simulationIntervalRef>>
  /\ UNCHANGED <<plan, argument, report, now, call, alert, ledgerVars, simulationSpeed,
                 currentScenario>>

----------------------------------------------------------------------------
(* The specifications *)

Init ==
  /\ plan = NoPlan
  /\ argument = NoPlan
  /\ report = NoReport
  /\ now = 1
  /\ call = Call("none", -1, "", FALSE)
  /\ alert = NoAlert
  /\ ledger = <<GenesisBlock(1)>>
  /\ logged = <<GenesisBlock(1).data>>
  /\ verdict = NoVerdict
  /\ simulationActive = FALSE
  /\ simulationSpeed = 1
  /\ currentScenario = Null
  /\ simulationTime = 1
  /\ simulationStats = ZeroStats
  /\ simulationIntervalRef = NoInterval
  /\ eventQueueRef = <<>>

Next ==
  \/ ReceivePlan
  \/ DoInitiateResponse
  \/ DoFetchResolved
  \/ DoCreateResponsePlan
  \/ DoSimulateIncidentResponse
  \/ DoStartResponse
  \/ DoSimulateResponseProgress
  \/ DoAddResponseNote
  \/ DoUpdateResponsePhase
  \/ DoUpdateResponse
  \/ DoGenerateResponseReport
  \/ Tick

Spec == Init /\ [][Next]_vars

NextDetect ==
  \/ DoSimulateAIDetection
  \/ DoSimulateNewAlert
  \/ DoGenerateThreatAlerts
  \/ DoClassifyThreat

SpecDetect == Init /\ [][NextDetect]_vars

NextLedger ==
  \/ DoLogIncident
  \/ DoTamperData
  \/ DoVerifyLedger
  \/ Tick

SpecLedger == Init /\ [][NextLedger]_vars

NextSteps ==
  \/ DoGenerateResponseSteps

SpecSteps == Init /\ [][NextSteps]_vars

NextSim ==
  \/ DoStartSimulation
  \/ DoStopSimulation
  \/ DoChangeSimulationSpeed
  \/ IntervalTick

SpecSim == Init /\ [][NextSim]_vars

----------------------------------------------------------------------------
(* Properties *)

InitiatedNote(n) == n.content.text = "Incident response initiated"
ProgressNote(n) == n.content.text = "Response progress"
CompletedNote(n) == n.content.text = "Incident response completed"

\* The plan was started once and has since seen only simulateResponseProgress
\* calls with non-decreasing percentages below 100 (every effective call
\* leaves its note in the log)
FreshRun(p) ==
  /\ p.exists
  /\ Len(p.notes) >= 1
  /\ InitiatedNote(p.notes[1])
  /\ \A i \in 2..Len(p.notes) :
       /\ ProgressNote(p.notes[i])
       /\ i > 2 => p.notes[i - 1].content.pct <= p.notes[i].content.pct

LastPercentage(p) ==
  IF Len(p.notes) = 1 THEN 0 ELSE p.notes[Len(p.notes)].content.pct

CompletedPhases(p) ==
  {ph \in PhaseNames : p.timeline[ph].status = RESPONSE_STATUS.COMPLETED}

AllCompleted(p) ==
  /\ p.status = RESPONSE_STATUS.COMPLETED
  /\ CompletedPhases(p) = PhaseNames
  /\ \A k \in 1..Len(p.responseSteps) :
       p.responseSteps[k].status = RESPONSE_STATUS.COMPLETED

\* C1: on a freshly started plan, a simulateResponseProgress call whose
\* percentage is in 0..100 and not below the previous one never removes a
\* phase from the set of completed phases, and a call at 100 leaves every
\* phase and every step completed and the plan completed.
C1_ProgressMonotone ==
  [][(/\ FreshRun(plan)
      /\ call'.op = "simulateResponseProgress"
      /\ call'.arg \in 0..100
      /\ call'.arg >= LastPercentage(plan))
     => (/\ CompletedPhases(plan) \subseteq CompletedPhases(plan')
         /\ call'.arg = 100 => AllCompleted(plan'))]_vars

C1_Witness ==
  /\ plan.exists
  /\ Len(plan.notes) = 3
  /\ InitiatedNote(plan.notes[1])
  /\ ProgressNote(plan.notes[2])
  /\ plan.notes[2].content.pct = 80
  /\ CompletedNote(plan.notes[3])
  /\ call.op = "simulateResponseProgress"
  /\ call.arg = 100
  /\ AllCompleted(plan)

\* C2: createResponsePlan(alert), startResponse, simulateResponseProgress at
\* 100 and generateResponseReport (the chain simulateIncidentResponse(alert,
\* 100) runs) yield a completed report whose incidentId is the alert's id.
C2_RoundTripIncidentId ==
  /\ call.op = "createResponsePlan" => (~call.threw /\ plan.exists)
  /\ (call.op = "simulateIncidentResponse" /\ call.arg = 100)
       => (/\ ~call.threw
           /\ report.status = "Completed"
           /\ report.incidentId = call.id)

\* C3: the plan status never moves backward along pending, in_progress,
\* completed.
C3_StatusMonotone ==
  [][(plan.exists /\ plan'.exists)
     => (/\ plan.status = RESPONSE_STATUS.COMPLETED
             => plan'.status \notin {RESPONSE_STATUS.IN_PROGRESS, RESPONSE_STATUS.PENDING}
         /\ plan.status = RESPONSE_STATUS.IN_PROGRESS
             => plan'.status # RESPONSE_STATUS.PENDING)]_vars

\* C4 as stated: a phase's startTime, once written, is never cleared or
\* overwritten with a different value, and likewise its endTime.
C4_TimestampsWrittenOnce ==
  [][(plan.exists /\ plan'.exists)
     => \A ph \in PhaseNames :
          /\ ~Falsy(plan.timeline[ph].startTime)
               => plan'.timeline[ph].startTime = plan.timeline[ph].startTime
          /\ ~Falsy(plan.timeline[ph].endTime)
               => plan'.timeline[ph].endTime = plan.timeline[ph].endTime]_vars

\* C4 as amended: a phase's endTime, once written, is never cleared or
\* overwritten; a phase's startTime, once written, is never cleared and is
\* overwritten only by startResponse re-stamping the identification phase.
C4_TimestampsKept ==
  [][(plan.exists /\ plan'.exists)
     => \A ph \in PhaseNames :
          /\ ~Falsy(plan.timeline[ph].endTime)
               => plan'.timeline[ph].endTime = plan.timeline[ph].endTime
          /\ ~Falsy(plan.timeline[ph].startTime)
               => \/ plan'.timeline[ph].startTime = plan.timeline[ph].startTime
                  \/ /\ ph = RESPONSE_PHASES.IDENTIFICATION
                     /\ call'.op = "startResponse"
                     /\ plan'.timeline[ph].startTime = now]_vars

\* A phase completed at one time has gone through a later
\* simulateResponseProgress call that completed it again, with its stamps kept
C4_Witness ==
  /\ plan.exists
  /\ call.op = "simulateResponseProgress"
  /\ Len(plan.notes) >= 2
  /\ ProgressNote(plan.notes[Len(plan.notes) - 1])
  /\ plan.notes[Len(plan.notes) - 1].timestamp < plan.notes[Len(plan.notes)].timestamp
  /\ \E ph \in PhaseNames :
       /\ plan.timeline[ph].status = RESPONSE_STATUS.COMPLETED
       /\ plan.timeline[ph].endTime = plan.notes[Len(plan.notes) - 1].timestamp

PhaseIndex(ph) == IndexOf(PhaseKeys, ToUpperCase(ph))

\* C5: every change of a plan's phase moves it to the immediately following
\* phase of the order identification, containment, eradication, recovery,
\* lessons_learned.
C5_PhaseStepsForwardByOne ==
  [][(plan.exists /\ plan'.exists /\ plan'.phase # plan.phase)
     => (/\ plan.phase \in PhaseNames
         /\ plan'.phase \in PhaseNames
         /\ PhaseIndex(plan'.phase) = PhaseIndex(plan.phase) + 1)]_vars

\* C6: for a plan that is not completed, generateResponseReport returns the
\* "Incomplete" stub with the plan's incidentId and a completion percentage
\* in 0..100, and leaves the plan as it was.
C6_IncompleteStub ==
  [][(/\ plan.exists
      /\ plan.status # RESPONSE_STATUS.COMPLETED
      /\ call'.op = "generateResponseReport")
     => (/\ report'.status = "Incomplete"
         /\ report'.incidentId = plan.incidentId
         /\ ~report'.completionPercentage.nan
         /\ report'.completionPercentage.val \in 0..100
         /\ plan' = plan)]_vars

C6_Witness ==
  /\ plan.exists
  /\ call.op = "generateResponseReport"
  /\ plan.status = RESPONSE_STATUS.IN_PROGRESS
  /\ report.status = "Incomplete"
  /\ report.incidentId = "INC-2"
  /\ report.completionPercentage.val \in 1..99

\* C7: for a completed plan, however it was completed, the report is a full
\* report whose totalResponseTimeMinutes is a number >= 0.
C7_FullReportElapsedTime ==
  (report.status # "none" /\ plan.exists /\ plan.status = RESPONSE_STATUS.COMPLETED)
    => (/\ report.status = "Completed"
        /\ ~report.totalResponseTimeMinutes.nan
        /\ report.totalResponseTimeMinutes.val >= 0)

\* C8: the plan that initiateResponse or createResponsePlan builds for a
\* severity and threat type of the enumerations has an estimatedCompletionTime
\* equal to the sum of its five phase durations, and keeps it.
C8_EstimateIsSumOfPhases ==
  /\ call.op \in {"initiateResponse", "createResponsePlan"}
       => (~call.threw /\ plan.exists)
  /\ (plan.exists /\ "nan" \in DOMAIN plan.estimatedCompletionTime)
       => (/\ ~plan.estimatedCompletionTime.nan
           /\ plan.estimatedCompletionTime.val =
                plan.timeline["identification"].estimatedDuration.val
                + plan.timeline["containment"].estimatedDuration.val
                + plan.timeline["eradication"].estimatedDuration.val
                + plan.timeline["recovery"].estimatedDuration.val
                + plan.timeline["lessons_learned"].estimatedDuration.val)

\* C9: whichever way generateThreatAlert is called, the alert's riskScore is
\* a number between 5 and 99 inclusive (the model counts in hundredths).
C9_RiskScoreRange ==
  alert.kind = "alert"
    => (/\ ~alert.riskScore.nan
        /\ alert.riskScore.val >= 500
        /\ alert.riskScore.val <= 9900)

\* C10: simulateAIDetection returns no alert whenever the drawn anomaly score
\* is at most 0.7 (70 hundredths), whatever the device category.
C10_NoAlertAtOrBelowThreshold ==
  (call.op = "simulateAIDetection" /\ call.arg <= 70) => alert = NoAlert

C10_Witness ==
  /\ call.op = "simulateAIDetection"
  /\ call.arg = 70
  /\ alert = NoAlert

\* The (threat type, severity) pair that the documented priority order selects
\* for a device category and a drawn anomaly score above the alert threshold
ExpectedSelection(deviceType, anomalyScore) ==
  IF deviceType = "camera" THEN <<"Unauthorized Access", "high">>
  ELSE IF deviceType = "trafficLight" /\ anomalyScore > 80
  THEN <<"Data Manipulation", "critical">>
  ELSE IF deviceType = "waterSensor" /\ anomalyScore > 75
  THEN <<"Data Manipulation", "medium">>
  ELSE IF deviceType \notin {"trafficLight", "waterSensor"} /\ anomalyScore > 90
  THEN <<"Communication Hijacking", "high">>
  ELSE <<"Unauthorized Access", "medium">>

\* C11: every alert simulateAIDetection returns carries the threat type and
\* the severity of the first matching pattern (Unauthorized Access/medium when
\* none matches), and its threatType is one of the defined threat types.
C11_AlertCarriesSelection ==
  (call.op = "simulateAIDetection" /\ alert.kind = "alert")
    => (/\ alert.threatType \in ThreatTypes
        /\ <<alert.threatType, alert.severity>>
             = ExpectedSelection(alert.deviceType, call.arg))

\* C12: initiateResponse, createResponsePlan and simulateIncidentResponse,
\* called with a type and a severity of the enumerations, return a plan and
\* raise no error.
C12_PlannerNeverThrows ==
  call.op \in {"initiateResponse", "createResponsePlan", "simulateIncidentResponse"}
    => (~call.threw /\ plan.exists)

\* The numeric estimatedCompletionTime of the plan a constructor call returns
\* (-1 when the call raises or the field is not a number)
EstimateOf(r) ==
  IF r.threw THEN -1
  ELSE IF "nan" \notin DOMAIN r.value.estimatedCompletionTime THEN -1
  ELSE IF r.value.estimatedCompletionTime.nan THEN -1
  ELSE r.value.estimatedCompletionTime.val

\* C13: for the threat type of any plan-creating call, the plan created for
\* severity low has a strictly smaller estimatedCompletionTime than the
\* otherwise identical plan created for severity critical.
C13_LowBelowCritical ==
  call.op \in {"createResponsePlan", "initiateResponse"}
    => \A t \in ThreatTypes :
         LET low == createResponsePlan(
                      [id |-> call.id, type |-> t, severity |-> SEVERITY.LOW], now)
             critical == createResponsePlan(
                      [id |-> call.id, type |-> t, severity |-> SEVERITY.CRITICAL], now)
             lowI == initiateResponse(call.id, t, SEVERITY.LOW, now)
             criticalI == initiateResponse(call.id, t, SEVERITY.CRITICAL, now)
         IN /\ EstimateOf(low) >= 0
            /\ EstimateOf(low) < EstimateOf(critical)
            /\ EstimateOf(lowI) >= 0
            /\ EstimateOf(lowI) < EstimateOf(criticalI)

\* C14: the impactLevel of a classifyThreat result is fixed by the severity
\* alone (critical severe, high significant, medium moderate, low minor,
\* anything else unknown), its recommendedActions are fixed by the threat type
\* alone, and (Ransomware, critical) gives severe and a list containing
\* "Disconnect from network immediately".
C14_ImpactBySeverityActionsByType ==
  alert.kind = "classification"
    => LET c == alert.value
       IN /\ c.impactLevel =
               (IF c.severity = "critical" THEN "severe"
                ELSE IF c.severity = "high" THEN "significant"
                ELSE IF c.severity = "medium" THEN "moderate"
                ELSE IF c.severity = "low" THEN "minor"
                ELSE "unknown")
          /\ \A s \in ClassifySeverities, a \in AnomalyScores, d \in {"camera"} :
               /\ classifyThreat(c.type, s, analyzeDeviceBehavior(d, a)).recommendedActions
                    = c.recommendedActions
               /\ classifyThreat(c.type, s, NoBehavior).recommendedActions
                    = c.recommendedActions
          /\ (c.type = "Ransomware" /\ c.severity = "critical")
               => (/\ c.impactLevel = "severe"
                   /\ Includes(c.recommendedActions,
                               "Disconnect from network immediately"))

C14_Witness ==
  /\ call.op = "classifyThreat"
  /\ alert.kind = "classification"
  /\ alert.value.type = "Ransomware"
  /\ alert.value.severity = "critical"
  /\ alert.value.impactLevel = "severe"
  /\ alert.value.recommendedActions[1] = "Disconnect from network immediately"

\* C15: in every state reachable through the planner operations, a plan's
\* phase is one of the five defined phases.
C15_PhaseIsDefined ==
  plan.exists => plan.phase \in PhaseNames

\* C16: simulateResponseProgress on a plan that has no start time or is
\* already completed returns the plan unchanged, whatever the percentage:
\* status, timeline, steps, completion time and notes are as before.
C16_NoOpWithoutStartOrCompleted ==
  [][(/\ plan.exists
      /\ (Falsy(plan.startTime) \/ plan.status = RESPONSE_STATUS.COMPLETED)
      /\ call'.op = "simulateResponseProgress")
     => plan' = plan]_vars

\* A call at 40 percent can complete no plan: the plan was completed before
\* the call and has come through it
C16_Witness ==
  /\ plan.exists
  /\ call.op = "simulateResponseProgress"
  /\ call.arg = 40
  /\ plan.status = RESPONSE_STATUS.COMPLETED
  /\ ~Falsy(plan.startTime)

StepsCompleted(p) ==
  {k \in 1..Len(p.responseSteps) :
     p.responseSteps[k].status = RESPONSE_STATUS.COMPLETED}

\* C17: no simulateResponseProgress call, a call with a lower percentage than
\* an earlier one included, changes the status of a timeline phase or of a
\* step that is already completed.
C17_CompletedIsSticky ==
  [][(plan.exists /\ call'.op = "simulateResponseProgress")
     => (/\ CompletedPhases(plan) \subseteq CompletedPhases(plan')
         /\ StepsCompleted(plan) \subseteq StepsCompleted(plan'))]_vars

\* C19: after a simulateResponseProgress call that takes effect, whatever
\* the percentage, each step whose phase is at or before the current phase
\* index has the status of that phase's timeline entry, and a plan that has
\* become completed has no step left in_progress or pending.
C19_StepsFollowPhases ==
  [][(/\ plan.exists
      /\ call'.op = "simulateResponseProgress"
      /\ plan' # plan)
     => (/\ \A k \in 1..Len(plan'.responseSteps) :
              LET step == plan'.responseSteps[k]
              IN PhaseIndex(step.phase) <= CurrentPhaseIndex(call'.arg)
                   => step.status = plan'.timeline[step.phase].status
         /\ plan'.status = RESPONSE_STATUS.COMPLETED
              => \A k \in 1..Len(plan'.responseSteps) :
                   plan'.responseSteps[k].status = RESPONSE_STATUS.COMPLETED)]_vars

\* C20: after a simulateResponseProgress call with percentage p that takes
\* effect, the plan's phase field names the phase at index
\* min(floor(p/100*5), 4), and it is lessons_learned once the plan is
\* completed.
C20_PhaseFieldAdvances ==
  [][(/\ plan.exists
      /\ call'.op = "simulateResponseProgress"
      /\ plan' # plan)
     => (/\ plan'.phase = PhaseAt(CurrentPhaseIndex(call'.arg))
         /\ plan'.status = RESPONSE_STATUS.COMPLETED
              => plan'.phase = RESPONSE_PHASES.LESSONS_LEARNED)]_vars

\* The blocks (sequence indices) whose data differs from the data logged
Tampered ==
  {i \in 1..Len(ledger) : ledger[i].data # logged[i]}

\* C18: verifyLedger reports the ledger invalid whenever the data of a block
\* already in the ledger, the genesis block included, has been changed after
\* the block was logged.
C18_TamperingDetected ==
  (verdict # NoVerdict /\ Tampered # {}) => ~verdict.valid

IsPrefix(a, b) == Len(a) <= Len(b) /\ SubSeq(b, 1, Len(a)) = a

\* C21: startResponse sets the status to in_progress, marks the
\* identification phase and every identification-phase step in_progress with
\* the start timestamp and appends exactly one system note; the four other
\* phases, the steps of other phases and the earlier notes are unchanged.
C21_StartResponseFrame ==
  [][(plan.exists /\ call'.op = "startResponse" /\ now' = now)
     => (/\ plan'.status = RESPONSE_STATUS.IN_PROGRESS
         /\ plan'.startTime = now
         /\ plan'.timeline["identification"].status = RESPONSE_STATUS.IN_PROGRESS
         /\ plan'.timeline["identification"].startTime = now
         /\ \A ph \in PhaseNames \ {"identification"} :
              plan'.timeline[ph] = plan.timeline[ph]
         /\ Len(plan'.responseSteps) = Len(plan.responseSteps)
         /\ \A k \in 1..Len(plan.responseSteps) :
              IF plan.responseSteps[k].phase = "identification"
              THEN /\ plan'.responseSteps[k].status = RESPONSE_STATUS.IN_PROGRESS
                   /\ plan'.responseSteps[k].startTime = now
              ELSE plan'.responseSteps[k] = plan.responseSteps[k]
         /\ Len(plan'.notes) = Len(plan.notes) + 1
         /\ IsPrefix(plan.notes, plan'.notes)
         /\ plan'.notes[Len(plan'.notes)].author = "System")]_vars

\* A started plan that still has a pending step outside the identification
\* phase next to an identification step in progress
C21_Witness ==
  /\ plan.exists
  /\ call.op = "startResponse"
  /\ Len(plan.notes) = 2
  /\ InitiatedNote(plan.notes[2])
  /\ \E k \in 1..Len(plan.responseSteps) :
       /\ plan.responseSteps[k].phase = "identification"
       /\ plan.responseSteps[k].status = RESPONSE_STATUS.IN_PROGRESS
  /\ \E k \in 1..Len(plan.responseSteps) :
       /\ plan.responseSteps[k].phase # "identification"
       /\ plan.responseSteps[k].status = RESPONSE_STATUS.PENDING

\* The newPhase argument of the updateResponsePhase call that produced the
\* plan, as its "Response phase updated" note records it
NotedPhase(p) ==
  LET n == Len(p.notes)
  IN IF p.notes[n].author = "System" THEN p.notes[n].content.phase
     ELSE p.notes[n - 1].content.phase

\* C22: updateResponsePhase sets the phase to newPhase, sets the status to
\* completed when newPhase is lessons_learned, and leaves the status as it was
\* for every other newPhase.
C22_PhaseOverride ==
  [][(plan.exists /\ call'.op = "updateResponsePhase" /\ now' = now)
     => (/\ plan'.phase = NotedPhase(plan')
         /\ plan'.phase \in NewPhases
         /\ plan'.phase = "lessons_learned"
              => plan'.status = RESPONSE_STATUS.COMPLETED
         /\ plan'.phase # "lessons_learned"
              => plan'.status = plan.status)]_vars

\* A response moved to recovery whose status is still in_progress
C22_Witness ==
  /\ plan.exists
  /\ call.op = "updateResponsePhase"
  /\ plan.phase = "recovery"
  /\ plan.status = RESPONSE_STATUS.IN_PROGRESS
  /\ NotedPhase(plan) = "recovery"

\* The advice block the report is to carry for a threat type
AdviceBlock(threatType) ==
  IF threatType = "Unauthorized Access"
  THEN <<"Implement stronger authentication mechanisms across similar devices.",
         "Review access control policies and procedures.">>
  ELSE IF threatType = "Data Manipulation"
  THEN <<"Implement data integrity verification mechanisms.",
         "Consider blockchain or cryptographic solutions for critical data.">>
  ELSE IF threatType = "Firmware Tampering"
  THEN <<"Implement secure boot and firmware signature verification.",
         "Establish regular firmware update and verification schedule.">>
  ELSE IF threatType \in {"Malware Infection", "Ransomware"}
  THEN <<"Enhance endpoint protection on all connected devices.",
         "Implement network segmentation to limit lateral movement.">>
  ELSE <<"Review security posture of similar devices in the network.">>

\* C23: a plan is built by initiateResponse or createResponsePlan, and the
\* report of the completed plan carries the advice block of the incident's
\* threat type, followed at the end by the two universal recommendations.
C23_AdviceKeyedByThreatType ==
  /\ call.op \in {"createResponsePlan", "initiateResponse", "fetchResponseData"}
       => ~call.threw
  /\ (plan.exists /\ report.status = "Completed")
       => LET r == report.recommendations
              n == Len(r)
              block == AdviceBlock(plan.incidentType)
          IN /\ n >= 2 + Len(block)
             /\ r[n - 1] = "Conduct training exercises for similar scenarios."
             /\ r[n] = "Update incident response playbooks based on lessons learned."
             /\ SubSeq(r, n - 1 - Len(block), n - 2) = block

\* C24: classifyThreat returns confidence 0.5 + 0.4 * anomalyScore (in
\* thousandths: 500 + 4 * hundredths) for every behavior record carrying an
\* anomalyScore, 0 included, and 0.7 only when no record is supplied.
C24_ConfidenceFromScore ==
  (call.op = "classifyThreat" /\ alert.kind = "classification")
    => alert.value.confidence = (IF call.arg >= 0 THEN 500 + 4 * call.arg ELSE 700)

\* C26: the notes log is append-only: every operation keeps the notes already
\* logged in place and adds its own at the end, one per effective
\* startResponse, simulateResponseProgress and addResponseNote call and one or
\* two per updateResponsePhase call.
C26_NotesAppendOnly ==
  [][(plan.exists /\ plan'.exists /\ now' = now)
     => (/\ IsPrefix(plan.notes, plan'.notes)
         /\ call'.op \in {"startResponse", "addResponseNote"}
              => Len(plan'.notes) = Len(plan.notes) + 1
         /\ call'.op = "simulateResponseProgress"
              => Len(plan'.notes) = Len(plan.notes) + (IF plan' = plan THEN 0 ELSE 1)
         /\ call'.op \in {"updateResponsePhase", "updateResponse"}
              => Len(plan'.notes) \in {Len(plan.notes) + 1, Len(plan.notes) + 2}
         /\ call'.op = "generateResponseReport"
              => plan'.notes = plan.notes)]_vars

\* A log of three notes written by three different operations, in call order
C26_Witness ==
  /\ plan.exists
  /\ Len(plan.notes) = 3
  /\ plan.notes[1].author = "Analyst"
  /\ InitiatedNote(plan.notes[2])
  /\ plan.notes[3].content.text = "Response phase updated"
  /\ plan.notes[1].timestamp < plan.notes[3].timestamp

\* C28: whatever the device category and the anomaly score,
\* simulateAIDetection never selects Firmware Tampering/critical, because
\* 'Unexpected firmware behavior' is only ever produced together with
\* 'Communication protocol violation', which is tested first.
C28_FirmwareNeverSelected ==
  call.op = "simulateAIDetection"
    => /\ \A d \in DeviceTypes :
            LET patterns == analyzeDeviceBehavior(d, call.arg).patterns
            IN /\ SelectClassification(patterns)
                    # <<"Firmware Tampering", "critical">>
               /\ Includes(patterns, "Unexpected firmware behavior")
                    => Includes(patterns, "Communication protocol violation")
       /\ alert.kind = "alert"
            => (alert.severity = "critical" => alert.deviceType = "trafficLight")

\* A power-grid device with a score above 0.9: both patterns are present and
\* the alert carries the severity of Communication Hijacking
C28_Witness ==
  /\ call.op = "simulateAIDetection"
  /\ call.arg > 90
  /\ alert.kind = "alert"
  /\ alert.deviceType = "powerGrid"
  /\ alert.severity = "high"

\* C29: as long as no block's data has been changed, the ledger is a
\* well-formed chain: block i has index i, each block after the genesis block
\* stores the hash of the block before it, each block's hash is the hash of
\* its data and previousHash, and verifyLedger returns valid with blockCount
\* equal to the number of blocks.
C29_ChainWellFormed ==
  Tampered = {}
    => (/\ \A i \in 1..Len(ledger) :
              /\ ledger[i].index = i - 1
              /\ ledger[i].hash = generateHash(ledger[i].data, ledger[i].previousHash)
              /\ i > 1 => ledger[i].previousHash = ledger[i - 1].hash
        /\ ledger[1].previousHash = ZeroHash
        /\ verdict # NoVerdict
             => (verdict.valid /\ verdict.block = Len(ledger)))

C29_Witness ==
  /\ Tampered = {}
  /\ Len(ledger) = 3
  /\ ledger[2].data.message # ledger[3].data.message
  /\ verdict.valid
  /\ verdict.block = 3

\* C25: for n recommended-action strings and a timeline, generateResponseSteps
\* returns n + 1 pending steps with distinct ids; step i describes action i
\* with the phase and team of the lookup tables (containment and Tier 1 when
\* the action is in neither), and the last step is the lessons_learned
\* documentation step of the management team with the full lessons_learned
\* duration.
C25_StepsFromActions ==
  alert.kind = "steps"
    => LET actions == alert.recommendedActions
           steps == alert.steps
           n == Len(actions)
       IN /\ ~call.threw
          /\ Len(steps) = n + 1
          /\ \A i, j \in 1..(n + 1) : i # j => steps[i].id # steps[j].id
          /\ \A i \in 1..(n + 1) : steps[i].status = "pending"
          /\ \A i \in 1..n :
               /\ steps[i].description = actions[i]
               /\ steps[i].phase = (IF actions[i] \in DOMAIN phaseMap
                                    THEN phaseMap[actions[i]] ELSE "containment")
               /\ steps[i].assignedTeam = (IF actions[i] \in DOMAIN teamMap
                                           THEN teamMap[actions[i]]
                                           ELSE "Tier 1 - Initial Response")
          /\ steps[n + 1].phase = "lessons_learned"
          /\ steps[n + 1].description = "Document incident and update response procedures"
          /\ steps[n + 1].assignedTeam = "Crisis Management Team"
          /\ steps[n + 1].estimatedDuration
               = alert.timeline["lessons_learned"].estimatedDuration

\* Two actions, the first in neither table and the second listed under
\* recovery, and the documentation step after them
C25_Witness ==
  /\ call.op = "generateResponseSteps"
  /\ alert.kind = "steps"
  /\ alert.recommendedActions
       = <<"Lock affected accounts", "Implement additional authentication measures">>
  /\ Len(alert.steps) = 3
  /\ alert.steps[1].phase = "containment"
  /\ alert.steps[1].assignedTeam = "Tier 1 - Initial Response"
  /\ alert.steps[2].phase = "recovery"
  /\ alert.steps[3].phase = "lessons_learned"

\* C27: startResponse, simulateResponseProgress, addResponseNote and
\* updateResponsePhase leave the plan object passed to them unchanged: after
\* the call the argument has the status, timeline entries, steps and notes it
\* had before, so its timeline never runs ahead of its status.
C27_ArgumentUntouched ==
  [][(/\ plan.exists
      /\ now' = now
      /\ call'.op \in {"startResponse", "simulateResponseProgress",
                       "addResponseNote", "updateResponsePhase"})
     => (/\ argument'.status = plan.status
         /\ argument'.timeline = plan.timeline
         /\ argument'.responseSteps = plan.responseSteps
         /\ argument'.notes = plan.notes
         /\ argument'.status = RESPONSE_STATUS.PENDING
              => \A ph \in PhaseNames :
                   argument'.timeline[ph].status = RESPONSE_STATUS.PENDING)]_vars

====
